---- MODULE Spec2Model ----
(***************************************************************************)
(* A model of Iris.agent: the OCPP log front-end (app.py), its fixed-window *)
(* request counter (src/services/rate_limiter.py) and its log-to-text       *)
(* transcription and transaction-session grouping                           *)
(* (src/services/file_processor.py), and what the model services do with   *)
(* the log content and the response (src/services/gemini_service.py).       *)
(*                                                                          *)
(* Four specifications share the variables:                                 *)
(*   SpecLimiter  the RateLimiter object driven by arbitrary callers        *)
(*   SpecFile     the FileProcessor functions applied to bounded tables     *)
(*   SpecAnalysis analyze_logs applied to bounded contents and responses    *)
(*   Spec         the running application, one script run per user action   *)
(***************************************************************************)
EXTENDS Integers, Sequences, FiniteSets, TLC

\* ------------------------------------------------------------------ bounds
\* Largest clock reading (seconds) the model explores.
MaxTime == 92
\* Most check_rate_limit calls in one behaviour of SpecLimiter.
MaxCalls == 4
\* The configured limit (settings.py default 10, MAX_REQUESTS_PER_MINUTE).
max_requests_per_minute == 2
\* Most rows of an input table.
MaxRows == 2
\* Largest transaction id asked for or written into a generated payload.
MaxTxId == 12
\* The configured row limit (settings.py default 50000, MAX_DATAFRAME_ROWS).
max_dataframe_rows == 1
\* Most script runs in one behaviour of Spec.
MaxRuns == 3
\* Most charging sessions a generated model response reports.
MaxSessions == 2
\* Largest max_content_size_kb (settings.py default 500, MAX_LOG_CONTENT_SIZE_KB).
MaxKb == 1

\* ------------------------------------------------------- program constants
\* rate_limiter.py:49  "current_time - session_data['last_reset'] > 60"
Window == 60

\* Python's None.
None == "None"

VARIABLES
    \* ---- wall clock, time.time(), in whole seconds
    now,
    \* ---- RateLimiter.request_counts: session id -> [count, last_reset]
    request_counts,
    \* ---- history of the limiter's calls (not program state)
    last_call,      \* the last RateLimiter call and what it returned
    window_calls,   \* per session: results of the check calls of its current window
    grant_times,    \* per session: clock readings of its latest True returns
    reset_used,     \* sessions on which reset_session has been called
    calls,          \* number of check_rate_limit calls made so far
    \* ---- FileProcessor functions applied to an input (SpecFile)
    input,          \* the table, upload or payload a function is applied to
    call,           \* the function applied, its arguments and its result
    \* ---- the running application (Spec)
    config_model_provider,  \* config.model_provider, one per server process
    env,                    \* the process environment the providers see
    session_state,          \* st.session_state of each user
    run,                    \* history: the last script run and what it did
    runs,                   \* history: number of script runs so far
    analyze_window          \* history: per user, a 60-second window of Analyze actions

limiterVars == <<request_counts, last_call, window_calls, grant_times, reset_used, calls>>
fileVars == <<input, call>>
appVars == <<config_model_provider, env, session_state, run, runs, analyze_window>>
vars == <<now, limiterVars, fileVars, appVars>>

\* =========================================================================
\* Text. A Python str is modelled as the sequence of its characters, so that
\* lower(), "in", slicing, regex search and int()/str() are computed and not
\* assumed.
\* =========================================================================
Quote == "\""
UpperLetters == <<"A", "B", "C", "D", "E", "F", "G", "H", "I", "J", "K", "L", "M", "N", "O", "P", "Q", "R", "S", "T", "U", "V", "W", "X", "Y", "Z">>
LowerLetters == <<"a", "b", "c", "d", "e", "f", "g", "h", "i", "j", "k", "l", "m", "n", "o", "p", "q", "r", "s", "t", "u", "v", "w", "x", "y", "z">>
DigitChars == <<"0", "1", "2", "3", "4", "5", "6", "7", "8", "9">>

\* str.lower() on one character.
LowerChar(c) ==
    IF \E i \in 1..Len(UpperLetters) : UpperLetters[i] = c
    THEN LowerLetters[CHOOSE i \in 1..Len(UpperLetters) : UpperLetters[i] = c]
    ELSE c

\* str.lower()
Lower(s) == [i \in 1..Len(s) |-> LowerChar(s[i])]

\* s[i:i+len(lit)] == lit  (i is 1-based)
LitAt(s, i, lit) ==
    /\ i >= 1
    /\ i + Len(lit) - 1 <= Len(s)
    /\ \A k \in 1..Len(lit) : s[i + k - 1] = lit[k]

\* Python's "sub in s"
Contains(s, sub) == \E i \in 1..(Len(s) - Len(sub) + 1) : LitAt(s, i, sub)

\* pandas Series.str.contains(pat, case=False) for a pattern without regex
\* metacharacters: a case-insensitive substring search.
ContainsIgnoreCase(s, pat) == Contains(Lower(s), Lower(pat))

IsDigit(c) == \E i \in 1..Len(DigitChars) : DigitChars[i] = c
DigitVal(c) == (CHOOSE i \in 1..Len(DigitChars) : DigitChars[i] = c) - 1
\* regex \s
IsSpace(c) == c \in {" ", "\t", "\n", "\r"}

\* First index >= i of s that holds no character satisfying the class
\* (Len(s) + 1 when the run reaches the end): where a greedy \s* or \d+ stops.
SpaceRunEnd(s, i) ==
    CHOOSE e \in i..(Len(s) + 1) :
        /\ \A k \in i..(e - 1) : IsSpace(s[k])
        /\ (e = Len(s) + 1 \/ ~IsSpace(s[e]))
DigitRunEnd(s, i) ==
    CHOOSE e \in i..(Len(s) + 1) :
        /\ \A k \in i..(e - 1) : IsDigit(s[k])
        /\ (e = Len(s) + 1 \/ ~IsDigit(s[e]))

RECURSIVE ParseNat(_)
\* int() of a run of decimal digits.
ParseNat(ds) ==
    IF Len(ds) = 0 THEN 0
    ELSE 10 * ParseNat(SubSeq(ds, 1, Len(ds) - 1)) + DigitVal(ds[Len(ds)])

RECURSIVE StrOfNat(_)
\* str() of a non-negative int, as an f-string formats tx_id.
StrOfNat(n) ==
    IF n < 10 THEN <<DigitChars[n + 1]>>
    ELSE StrOfNat(n \div 10) \o <<DigitChars[(n % 10) + 1]>>

\* int(float(text)) for text matched by \d+ or \d+\.\d+ : float() reads the
\* decimal number and int() drops its fraction. (A double is exact up to 2^53;
\* the ids of the model stay far below.)
IntOfFloatText(text) ==
    LET dot == IF \E i \in 1..Len(text) : text[i] = "."
               THEN CHOOSE i \in 1..Len(text) : text[i] = "."
               ELSE Len(text) + 1
    IN  ParseNat(SubSeq(text, 1, dot - 1))

\* Lexicographic str comparison by code point, for the characters in use.
AsciiOrder == <<"\t", "\n", " ", "\"", ",", "-", ".", "0", "1", "2", "3", "4", "5", "6", "7", "8", "9", ":", "A", "B", "C", "D", "E", "F", "G", "H", "I", "J", "K", "L", "M", "N", "O", "P", "Q", "R", "S", "T", "U", "V", "W", "X", "Y", "Z", "_", "a", "b", "c", "d", "e", "f", "g", "h", "i", "j", "k", "l", "m", "n", "o", "p", "q", "r", "s", "t", "u", "v", "w", "x", "y", "z", "{", "}">>
Ord(c) == CHOOSE i \in 1..Len(AsciiOrder) : AsciiOrder[i] = c
StrLess(a, b) ==
    \E i \in 1..(Len(b)) :
        /\ \A k \in 1..(i - 1) : k <= Len(a) /\ a[k] = b[k]
        /\ (i > Len(a) \/ (i <= Len(a) /\ Ord(a[i]) < Ord(b[i])))
StrLeq(a, b) == a = b \/ StrLess(a, b)

\* =========================================================================
\* src/services/file_processor.py : the transaction-id patterns
\* =========================================================================
K_transactionId == <<"\"", "t", "r", "a", "n", "s", "a", "c", "t", "i", "o", "n", "I", "d", "\"", ":">>
K_transactionid == <<"\"", "t", "r", "a", "n", "s", "a", "c", "t", "i", "o", "n", "i", "d", "\"", ":">>
K_TransactionId == <<"\"", "T", "r", "a", "n", "s", "a", "c", "t", "i", "o", "n", "I", "d", "\"", ":">>

\* file_processor.py:175-184  the regular expressions, in list order:
\*   key \s* (\d+)        key \s* "(\d+)"
\*   key \s* (\d+\.\d+)   key \s* "(\d+\.\d+)"
\* re.search found nothing (a captured group is never empty).
NoMatch == <<>>
\* Optional[int]: the None of file_processor.py:194.
NoneId == -1

patterns == <<
    [key |-> K_transactionId, quoted |-> FALSE, frac |-> FALSE],
    [key |-> K_transactionId, quoted |-> TRUE,  frac |-> FALSE],
    [key |-> K_transactionId, quoted |-> FALSE, frac |-> TRUE],
    [key |-> K_transactionId, quoted |-> TRUE,  frac |-> TRUE],
    [key |-> K_transactionid, quoted |-> FALSE, frac |-> FALSE],
    [key |-> K_transactionid, quoted |-> TRUE,  frac |-> FALSE],
    [key |-> K_TransactionId, quoted |-> FALSE, frac |-> FALSE],
    [key |-> K_TransactionId, quoted |-> TRUE,  frac |-> FALSE] >>

\* The text captured by group 1 when pattern p matches s at position i, else
\* NoMatch. The greedy \s* and \d+ never need to give characters back: what
\* follows them in these patterns is never a space, respectively a digit.
MatchAt(s, i, p) ==
    IF ~LitAt(s, i, p.key) THEN NoMatch
    ELSE
    LET j1 == SpaceRunEnd(s, i + Len(p.key))
        j2 == IF p.quoted THEN j1 + 1 ELSE j1
        e1 == IF j2 <= Len(s) + 1 THEN DigitRunEnd(s, j2) ELSE j2
        e2 == IF p.frac /\ e1 + 1 <= Len(s) + 1 THEN DigitRunEnd(s, e1 + 1) ELSE e1 + 1
        stop == IF p.frac THEN e2 ELSE e1
    IN  IF /\ (p.quoted => LitAt(s, j1, <<Quote>>))
           /\ e1 > j2
           /\ (p.frac => (LitAt(s, e1, <<".">>) /\ e2 > e1 + 1))
           /\ (p.quoted => LitAt(s, stop, <<Quote>>))
        THEN SubSeq(s, j2, stop - 1)
        ELSE NoMatch

\* re.search(pattern, payload): group 1 of the leftmost match, else NoMatch.
Search(p, s) ==
    IF \E i \in 1..Len(s) : MatchAt(s, i, p) # NoMatch
    THEN MatchAt(s, CHOOSE i \in 1..Len(s) :
                        /\ MatchAt(s, i, p) # NoMatch
                        /\ \A k \in 1..(i - 1) : MatchAt(s, k, p) = NoMatch, p)
    ELSE NoMatch

\* file_processor.py:186-194  the first pattern of the list that matches
\* decides; int(float(...)) cannot fail on what these groups capture.
ExtractWithPatterns(pats, payload) ==
    IF \E n \in 1..Len(pats) : Search(pats[n], payload) # NoMatch
    THEN IntOfFloatText(
            Search(pats[CHOOSE n \in 1..Len(pats) :
                            /\ Search(pats[n], payload) # NoMatch
                            /\ \A m \in 1..(n - 1) : Search(pats[m], payload) = NoMatch],
                   payload))
    ELSE NoneId

_extract_transaction_id_from_payload(payload) == ExtractWithPatterns(patterns, payload)

\* =========================================================================
\* src/services/file_processor.py : the table functions.
\* A DataFrame is the sequence of its rows in file order; a row is a record of
\* its cells as text (what df.astype(str) and str(row.get(...)) give) plus
\* idx, its pandas index label. pd.read_csv itself is library code: an
\* uploaded CSV is given by the table it parses to.
\* =========================================================================
columns == <<"real_time", "command", "payLoadData">>

W_Heart == <<"H", "e", "a", "r", "t">>
W_BootNotification == <<"B", "o", "o", "t", "N", "o", "t", "i", "f", "i", "c", "a", "t", "i", "o", "n">>
W_HeartBeat == <<"H", "e", "a", "r", "t", "B", "e", "a", "t">>
W_StatusNotificationResponse == <<"S", "t", "a", "t", "u", "s", "N", "o", "t", "i", "f", "i", "c", "a", "t", "i", "o", "n", "R", "e", "s", "p", "o", "n", "s", "e">>
W_MeterValuesResponse == <<"M", "e", "t", "e", "r", "V", "a", "l", "u", "e", "s", "R", "e", "s", "p", "o", "n", "s", "e">>

\* file_processor.py:86-88
heartbeat_mask(row) == \E col \in 1..Len(columns) : ContainsIgnoreCase(row[columns[col]], W_Heart)
\* file_processor.py:90-92
boot_notification_mask(row) ==
    \E col \in 1..Len(columns) : ContainsIgnoreCase(row[columns[col]], W_BootNotification)
\* file_processor.py:95
combined_mask_heartbeat_only(row) == heartbeat_mask(row) = FALSE
combined_mask(row) == (heartbeat_mask(row) = FALSE) /\ (boot_notification_mask(row) = FALSE)

\* file_processor.py:84-96  df[combined_mask]
_filter_heartbeat_and_boot_notification_messages(df) == SelectSeq(df, combined_mask)

\* file_processor.py:100
messagesToRemove == <<W_HeartBeat, W_BootNotification, W_StatusNotificationResponse,
                      W_MeterValuesResponse>>
\* file_processor.py:101-103  the regex 'A|B|C|D', case-insensitive, any column
iris_mask(row) ==
    \E col \in 1..Len(columns) : \E m \in 1..Len(messagesToRemove) :
        ContainsIgnoreCase(row[columns[col]], messagesToRemove[m])
iris_keep(row) == iris_mask(row) = FALSE
\* file_processor.py:98-104  df[mask == False]
_filter_iris_cms_logs(df) == SelectSeq(df, iris_keep)

\* file_processor.py:202-213  the ten literal forms searched for tx_id
tx_patterns(tx_id) ==
    LET n == StrOfNat(tx_id)
    IN  << K_transactionId \o n,
           K_transactionId \o <<Quote>> \o n \o <<Quote>>,
           K_transactionId \o <<" ">> \o n,
           K_transactionId \o <<" ", Quote>> \o n \o <<Quote>>,
           K_transactionId \o n \o <<".", "0">>,
           K_transactionId \o <<Quote>> \o n \o <<".", "0", Quote>>,
           K_transactionid \o n,
           K_transactionid \o <<Quote>> \o n \o <<Quote>>,
           K_TransactionId \o n,
           K_TransactionId \o <<Quote>> \o n \o <<Quote>> >>

\* file_processor.py:215  any(pattern in payload for pattern in tx_patterns)
PayloadHasTransaction(payload, tx_id) ==
    LET pats == tx_patterns(tx_id)
    IN  \E k \in 1..Len(pats) : Contains(payload, pats[k])

\* list.sort(key=real_time): ascending by str order, stable.
KeepTableOrder(msgs) == msgs
RECURSIVE SortByRealTime(_)
SortByRealTime(msgs) ==
    IF Len(msgs) <= 1 THEN msgs
    ELSE LET front == SortByRealTime(SubSeq(msgs, 1, Len(msgs) - 1))
             x     == msgs[Len(msgs)]
             \* x goes behind every element whose key is <= its own
             pos   == Cardinality({k \in 1..Len(front) :
                                      StrLeq(front[k].real_time, x.real_time)})
         IN  SubSeq(front, 1, pos) \o <<x>> \o SubSeq(front, pos + 1, Len(front))

\* file_processor.py:196-220
_get_messages_for_transaction(df, tx_id) ==
    LET hit(row) == PayloadHasTransaction(row.payLoadData, tx_id)
    IN  SortByRealTime(SelectSeq(df, hit))

\* file_processor.py:166  'transactionId' in payload.lower()
W_transactionId == <<"t", "r", "a", "n", "s", "a", "c", "t", "i", "o", "n", "I", "d">>
W_transactionid == <<"t", "r", "a", "n", "s", "a", "c", "t", "i", "o", "n", "i", "d">>
MentionsTransactionIdLowered(payload) == Contains(Lower(payload), W_transactionid)
MentionsTransactionId(payload) == Contains(Lower(payload), W_transactionId)

\* file_processor.py:160-171
_extract_transaction_ids(df) ==
    { _extract_transaction_id_from_payload(df[i].payLoadData) :
        i \in { k \in 1..Len(df) :
                  /\ MentionsTransactionId(df[k].payLoadData)
                  /\ _extract_transaction_id_from_payload(df[k].payLoadData) # NoneId } }

RECURSIVE SortedSeq(_)
\* sorted(set of ints)
SortedSeq(S) ==
    IF S = {} THEN <<>>
    ELSE LET m == CHOOSE x \in S : \A y \in S : x <= y
         IN  <<m>> \o SortedSeq(S \ {m})

\* file_processor.py:143-158  one TransactionSession per id, in sorted order,
\* ids without messages skipped.
SessionsOf(df, ids) ==
    LET all == [k \in 1..Len(ids) |->
                   [transaction_id |-> ids[k],
                    messages |-> _get_messages_for_transaction(df, ids[k])]]
        nonEmpty(session) == Len(session.messages) > 0
    IN  SelectSeq(all, nonEmpty)
_extract_transaction_sessions(df) == SessionsOf(df, SortedSeq(_extract_transaction_ids(df)))

\* file_processor.py:222-253
remaining_without_rows_naming_a_transaction(df, sessions) ==
    LET rest(row) == ~MentionsTransactionIdLowered(row.payLoadData)
    IN  SortByRealTime(SelectSeq(df, rest))
_get_remaining_messages(df, sessions) ==
    LET transaction_ids == {sessions[k].transaction_id : k \in 1..Len(sessions)}
        has_transaction(row) ==
            \E tx_id \in transaction_ids : PayloadHasTransaction(row.payLoadData, tx_id)
        rest(row) == ~has_transaction(row)
    IN  SortByRealTime(SelectSeq(df, rest))

RECURSIVE Flatten(_)
Flatten(ss) == IF Len(ss) = 0 THEN <<>> ELSE Head(ss) \o Flatten(Tail(ss))

\* file_processor.py:107-141  The text is modelled as the sequence of its
\* lines, a line as the sequence of the pieces the f-strings join.
MessageLines(rows, head, indent) ==
    Flatten([m \in 1..Len(rows) |->
        <<  <<head, m, ":">> >>
        \o [c \in 1..Len(columns) |-> <<indent, columns[c], ": ", rows[m][columns[c]]>>]
        \o << <<>> >>])
_convert_to_text_format(df) ==
    LET transaction_sessions == _extract_transaction_sessions(df)
        remaining_messages == _get_remaining_messages(df, transaction_sessions)
    IN  << <<"OCPP Log Data:">>, <<>>,
           <<"Columns: ", columns>>, <<>>,
           <<"=== SESSION ANALYSIS ===">>, <<>> >>
        \o Flatten([k \in 1..Len(transaction_sessions) |->
              << <<"--- TRANSACTION SESSION ", transaction_sessions[k].transaction_id, " ---">> >>
              \o MessageLines(transaction_sessions[k].messages, "  Message ", "    ")
              \o << <<>> >>])
        \o << <<"=== OTHER MESSAGES ===">>, <<>> >>
        \o MessageLines(remaining_messages, "Message ", "  ")

\* =========================================================================
\* src/services/rate_limiter.py
\* =========================================================================
SessionIds == {"default", "s2"}
\* Clock advances the model takes between calls: they reach readings that are
\* less than, exactly, and more than Window after a window start.
Steps == {30, 31}

NewSessionData(current_time) == [count |-> 0, last_reset |-> current_time]

\* rate_limiter.py:49  the reset test.
WindowExpiredNever(current_time, last_reset) == FALSE
WindowExpired(current_time, last_reset) == current_time - last_reset > Window

\* rate_limiter.py:54  the limit test.
LimitReachedLate(count) == count > max_requests_per_minute
LimitReached(count) == count >= max_requests_per_minute

\* check_rate_limit as a function of the stored counts, the session id and the
\* clock reading: the new request_counts and what the call returns or raises.
check_rate_limit(rc, session_id, current_time) ==
    LET rc1 == IF session_id \notin DOMAIN rc
               THEN rc @@ (session_id :> NewSessionData(current_time))
               ELSE rc
        d1  == rc1[session_id]
        d2  == IF WindowExpired(current_time, d1.last_reset)
               THEN [count |-> 0, last_reset |-> current_time]
               ELSE d1
    IN  IF LimitReached(d2.count)
        THEN [request_counts |-> [rc1 EXCEPT ![session_id] = d2],
              result |-> "RateLimitError"]
        ELSE [request_counts |-> [rc1 EXCEPT ![session_id] = [d2 EXCEPT !.count = @ + 1]],
              result |-> "True"]

Max(a, b) == IF a >= b THEN a ELSE b

\* get_remaining_requests: reads only.
get_remaining_requests(rc, session_id, current_time) ==
    IF session_id \notin DOMAIN rc THEN max_requests_per_minute
    ELSE IF WindowExpired(current_time, rc[session_id].last_reset)
         THEN max_requests_per_minute
         ELSE Max(0, max_requests_per_minute - rc[session_id].count)

\* reset_session: a known session gets count 0 and a window starting now.
reset_session(rc, session_id, current_time) ==
    IF session_id \in DOMAIN rc
    THEN [rc EXCEPT ![session_id] = [count |-> 0, last_reset |-> current_time]]
    ELSE rc

NoCall == [op |-> "none", session |-> "default", time |-> 0, existed |-> FALSE,
           prev_count |-> 0, prev_last_reset |-> 0, result |-> "none"]

\* The last (at most n) elements of a sequence.
LastN(s, n) == IF Len(s) <= n THEN s ELSE SubSeq(s, Len(s) - n + 1, Len(s))

InitLimiterVars ==
    /\ request_counts = <<>>
    /\ last_call = NoCall
    /\ window_calls = [s \in SessionIds |-> <<>>]
    /\ grant_times = [s \in SessionIds |-> <<>>]
    /\ reset_used = {}
    /\ calls = 0

\* time.time() moves on between calls.
Tick(d) ==
    /\ now + d <= MaxTime
    /\ now' = now + d
    /\ UNCHANGED <<limiterVars, fileVars, appVars>>

CheckRateLimit(s) ==
    /\ calls < MaxCalls
    /\ LET r       == check_rate_limit(request_counts, s, now)
           existed == s \in DOMAIN request_counts
           \* a call of the current window: made no more than Window seconds
           \* after the stored window start
           inWin   == existed /\ now - request_counts[s].last_reset <= Window
           newWin  == ~inWin
       IN  /\ request_counts' = r.request_counts
           /\ last_call' = [op |-> "check_rate_limit", session |-> s, time |-> now,
                            existed |-> existed,
                            prev_count |-> IF existed THEN request_counts[s].count ELSE 0,
                            prev_last_reset |-> IF existed THEN request_counts[s].last_reset ELSE now,
                            result |-> r.result]
           /\ window_calls' = [window_calls EXCEPT
                                 ![s] = IF newWin THEN <<r.result>> ELSE Append(@, r.result)]
           /\ grant_times' = [grant_times EXCEPT
                                 ![s] = IF r.result = "True"
                                        THEN LastN(Append(@, now), max_requests_per_minute + 1)
                                        ELSE @]
    /\ calls' = calls + 1
    /\ UNCHANGED <<now, reset_used, fileVars, appVars>>

GetRemainingRequests(s) ==
    /\ last_call.op # "get_remaining_requests"
    /\ last_call' = [NoCall EXCEPT !.op = "get_remaining_requests", !.session = s,
                                   !.time = now,
                                   !.result = get_remaining_requests(request_counts, s, now)]
    /\ UNCHANGED <<now, request_counts, window_calls, grant_times, reset_used, calls, fileVars, appVars>>

ResetSession(s) ==
    /\ s \in DOMAIN request_counts
    /\ s \notin reset_used
    /\ request_counts' = reset_session(request_counts, s, now)
    /\ last_call' = [NoCall EXCEPT !.op = "reset_session", !.session = s, !.time = now]
    /\ window_calls' = [window_calls EXCEPT ![s] = <<>>]
    /\ reset_used' = reset_used \cup {s}
    /\ UNCHANGED <<now, grant_times, calls, fileVars, appVars>>

\* settings.py:32  max_file_size_mb
max_file_size_mb == 5

\* validators.py:10-30
validate_file_size(content_bytes, max_size_mb) ==
    IF content_bytes > max_size_mb * 1024 * 1024 THEN "FileSizeError" ELSE "True"

\* df.head(n)
head_keeps_every_row(df, n) == df
head(df, n) == IF Len(df) <= n THEN df ELSE SubSeq(df, 1, n)

\* file_processor.py:80-82  "except Exception as e: raise FileProcessingError"
\* (the exceptions of the try body are all of class Exception)
RaiseFileErrorAsGiven(exc) == exc
RaiseAsFileProcessingError(exc) == IF exc = "none" THEN "none" ELSE "FileProcessingError"

\* The call raises: inner is what the try body raised.
Raised(exc) == [raised |-> RaiseAsFileProcessingError(exc), inner |-> exc, is_none |-> FALSE,
                text |-> <<>>, df |-> <<>>, filtered_df_csv |-> <<>>]
\* file_processor.py:75-78  the statements that follow the bare return
ReturnTextContent(df, filtered_df) ==
    [raised |-> "none", inner |-> "none", is_none |-> FALSE,
     text |-> _convert_to_text_format(filtered_df), df |-> df, filtered_df_csv |-> filtered_df]
\* file_processor.py:69-72  print, filtered_df.to_csv('filtered_df.csv'), return
ReturnAfterCsvDump(df, filtered_df) ==
    [raised |-> "none", inner |-> "none", is_none |-> TRUE, text |-> <<>>,
     df |-> df, filtered_df_csv |-> filtered_df]

\* file_processor.py:30-82  A LogFile is [file_type, content_is_str (False for
\* an UploadedFile object), content_bytes (len(content.encode())), parses
\* (whether the pandas reader accepts the content), table (what it parses to)].
\* The result is what the call raises, whether it returned None, the text it
\* returned, the table df given to the row filter, and the rows it wrote to
\* filtered_df.csv.
parse_file_to_text(log_file, use_iris_cms_filtering) ==
    IF ~log_file.content_is_str
    THEN Raised("AttributeError")           \* line 46: the content has no .encode()
    ELSE IF validate_file_size(log_file.content_bytes, max_file_size_mb) = "FileSizeError"
    THEN Raised("FileSizeError")            \* line 46
    ELSE IF log_file.file_type \notin {"csv", "xlsx"}
    THEN Raised("FileProcessingError")      \* line 56
    ELSE IF ~log_file.parses
    THEN Raised("ParserError")              \* lines 52, 54: the reader's error
    ELSE LET df == head(log_file.table, max_dataframe_rows)
             filtered_df == IF use_iris_cms_filtering
                            THEN _filter_iris_cms_logs(df)
                            ELSE _filter_heartbeat_and_boot_notification_messages(df)
         IN  ReturnAfterCsvDump(df, filtered_df)

\* ------------------------------------------------------- bounded inputs
\* The rows tables are built from: transaction ids in several written forms,
\* one id a decimal prefix of another, heartbeat / boot rows, and a row whose
\* payload (not its command) contains "heart".
RowPool == <<
    [real_time |-> <<"1", "0", ":", "0", "0">>,
     command |-> <<"S", "t", "a", "r", "t", "T", "r", "a", "n", "s", "a", "c", "t", "i", "o", "n">>,
     payLoadData |-> <<"{", "\"", "t", "r", "a", "n", "s", "a", "c", "t", "i", "o", "n", "I", "d", "\"", ":", "1", "}">>],
    [real_time |-> <<"0", "9", ":", "0", "0">>,
     command |-> <<"M", "e", "t", "e", "r", "V", "a", "l", "u", "e", "s">>,
     payLoadData |-> <<"{", "\"", "t", "r", "a", "n", "s", "a", "c", "t", "i", "o", "n", "I", "d", "\"", ":", "1", "2", "}">>],
    [real_time |-> <<"0", "9", ":", "0", "0">>,
     command |-> <<"S", "t", "o", "p", "T", "r", "a", "n", "s", "a", "c", "t", "i", "o", "n">>,
     payLoadData |-> <<"{", "\"", "t", "r", "a", "n", "s", "a", "c", "t", "i", "o", "n", "I", "d", "\"", ":", " ", "\"", "1", "\"", "}">>],
    [real_time |-> <<"1", "0", ":", "0", "0">>,
     command |-> <<"H", "e", "a", "r", "t", "b", "e", "a", "t">>,
     payLoadData |-> <<"{", "}">>],
    [real_time |-> <<"0", "9", ":", "3", "0">>,
     command |-> <<"B", "o", "o", "t", "N", "o", "t", "i", "f", "i", "c", "a", "t", "i", "o", "n">>,
     payLoadData |-> <<"{", "}">>],
    [real_time |-> <<"0", "9", ":", "3", "0">>,
     command |-> <<"S", "t", "a", "t", "u", "s", "N", "o", "t", "i", "f", "i", "c", "a", "t", "i", "o", "n", "R", "e", "s", "p", "o", "n", "s", "e">>,
     payLoadData |-> <<"{", "}">>],
    [real_time |-> <<"1", "0", ":", "0", "0">>,
     command |-> <<"A", "u", "t", "h", "o", "r", "i", "z", "e">>,
     payLoadData |-> <<"{", "\"", "i", "d", "T", "a", "g", "\"", ":", "\"", "i", "H", "E", "A", "R", "T", "\"", "}">>],
    [real_time |-> <<"0", "9", ":", "0", "0">>,
     command |-> <<"S", "t", "a", "r", "t", "T", "r", "a", "n", "s", "a", "c", "t", "i", "o", "n">>,
     payLoadData |-> <<"{", "\"", "T", "r", "a", "n", "s", "a", "c", "t", "i", "o", "n", "I", "d", "\"", ":", "\"", "2", "\"", "}">>] >>

\* The table holding the pool rows ixs, with pandas' RangeIndex 0..n-1.
TableOf(ixs) ==
    [i \in 1..Len(ixs) |->
        [idx |-> i - 1,
         real_time |-> RowPool[ixs[i]].real_time,
         command |-> RowPool[ixs[i]].command,
         payLoadData |-> RowPool[ixs[i]].payLoadData]]

Tables == { TableOf(ixs) : ixs \in UNION { [1..n -> 1..Len(RowPool)] : n \in 0..MaxRows } }

\* A small CSV upload that parses to df.
CsvFile(df) == [file_type |-> "csv", content_is_str |-> TRUE, content_bytes |-> 1024,
                parses |-> TRUE, table |-> df]

\* Uploads around the size limit, of each type, readable or not.
SampleTable == TableOf(<<4, 1, 2>>)
LogFiles ==
    { [file_type |-> t, content_is_str |-> c, content_bytes |-> b, parses |-> p,
       table |-> SampleTable] :
        t \in {"csv", "xlsx", "txt"}, c \in BOOLEAN, p \in BOOLEAN,
        b \in {1024, max_file_size_mb * 1024 * 1024, max_file_size_mb * 1024 * 1024 + 1} }

\* Payloads that carry a transaction id N in the written forms: one of the
\* three keys, a colon, optional whitespace, N bare or double-quoted, as an
\* integer or as N.0, between other numeric fields.
P_before == <<"{", "\"", "c", "o", "n", "n", "e", "c", "t", "o", "r", "I", "d", "\"", ":", "3", ",">>
P_after == <<",", "\"", "m", "e", "t", "e", "r", "S", "t", "o", "p", "\"", ":", "4", "5", "}">>
Keys == {K_transactionId, K_transactionid, K_TransactionId}
Gaps == {<<>>, <<" ">>, <<" ", " ">>}
GenPayload(key, gap, quoted, n, frac) ==
    P_before \o key \o gap
    \o (IF quoted THEN <<Quote>> ELSE <<>>)
    \o StrOfNat(n) \o (IF frac THEN <<".", "0">> ELSE <<>>)
    \o (IF quoted THEN <<Quote>> ELSE <<>>)
    \o P_after
\* Payloads with no such key followed by a number.
NoIdPayloads == {
    <<"{", "}">>,
    <<"{", "\"", "i", "d", "T", "a", "g", "\"", ":", "\"", "A", "1", "\"", ",", "\"", "c", "o", "n", "n", "e", "c", "t", "o", "r", "I", "d", "\"", ":", "3", "}">>,
    <<"{", "\"", "t", "r", "a", "n", "s", "a", "c", "t", "i", "o", "n", "I", "d", "\"", ":", "n", "u", "l", "l", "}">>,
    <<"{", "\"", "t", "r", "a", "n", "s", "a", "c", "t", "i", "o", "n", "I", "d", "\"", ":", "\"", "a", "b", "c", "\"", "}">>,
    <<"{", "\"", "T", "R", "A", "N", "S", "A", "C", "T", "I", "O", "N", "I", "D", "\"", ":", "5", "}">> }

NoTable == <<>>
NoText == <<>>
NoFile == CsvFile(NoTable)
FileInputs ==
    { [kind |-> "table", df |-> df, log_file |-> CsvFile(df), payload |-> NoText,
       expected |-> NoneId] : df \in Tables }
    \cup
    { [kind |-> "file", df |-> f.table, log_file |-> f, payload |-> NoText,
       expected |-> NoneId] : f \in LogFiles }
    \cup
    { [kind |-> "payload", df |-> NoTable, log_file |-> NoFile,
       payload |-> GenPayload(key, gap, q, n, frac), expected |-> n] :
        key \in Keys, gap \in Gaps, q \in BOOLEAN, n \in 0..MaxTxId, frac \in BOOLEAN }
    \cup
    { [kind |-> "payload", df |-> NoTable, log_file |-> NoFile, payload |-> p,
       expected |-> NoneId] : p \in NoIdPayloads }

NoFileCall == [op |-> "none", tx_id |-> 0, flag |-> FALSE, result |-> <<>>]
Called(op, tx_id, flag, result) == [op |-> op, tx_id |-> tx_id, flag |-> flag, result |-> result]

\* ------------------------------------------------------------- actions
\* Each applies one FileProcessor function to the input drawn by InitFile.
ParseFileToText(flag) ==
    /\ call.op = "none"
    /\ input.kind \in {"table", "file"}
    /\ call' = Called("parse_file_to_text", 0, flag, parse_file_to_text(input.log_file, flag))
    /\ UNCHANGED <<input, now, limiterVars, appVars>>

FilterHeartbeatAndBootNotificationMessages ==
    /\ call.op = "none"
    /\ input.kind = "table"
    /\ call' = Called("_filter_heartbeat_and_boot_notification_messages", 0, FALSE,
                      _filter_heartbeat_and_boot_notification_messages(input.df))
    /\ UNCHANGED <<input, now, limiterVars, appVars>>

FilterIrisCmsLogs ==
    /\ call.op = "none"
    /\ input.kind = "table"
    /\ call' = Called("_filter_iris_cms_logs", 0, TRUE, _filter_iris_cms_logs(input.df))
    /\ UNCHANGED <<input, now, limiterVars, appVars>>

ConvertToTextFormat ==
    /\ call.op = "none"
    /\ input.kind = "table"
    /\ call' = Called("_convert_to_text_format", 0, FALSE, _convert_to_text_format(input.df))
    /\ UNCHANGED <<input, now, limiterVars, appVars>>

ExtractTransactionSessions ==
    /\ call.op = "none"
    /\ input.kind = "table"
    /\ call' = Called("_extract_transaction_sessions", 0, FALSE,
                      _extract_transaction_sessions(input.df))
    /\ UNCHANGED <<input, now, limiterVars, appVars>>

ExtractTransactionIds ==
    /\ call.op = "none"
    /\ input.kind = "table"
    /\ call' = Called("_extract_transaction_ids", 0, FALSE, _extract_transaction_ids(input.df))
    /\ UNCHANGED <<input, now, limiterVars, appVars>>

ExtractTransactionIdFromPayload ==
    /\ call.op = "none"
    /\ input.kind = "payload"
    /\ call' = Called("_extract_transaction_id_from_payload", 0, FALSE,
                      _extract_transaction_id_from_payload(input.payload))
    /\ UNCHANGED <<input, now, limiterVars, appVars>>

GetMessagesForTransaction(tx_id) ==
    /\ call.op = "none"
    /\ input.kind = "table"
    /\ call' = Called("_get_messages_for_transaction", tx_id, FALSE,
                      _get_messages_for_transaction(input.df, tx_id))
    /\ UNCHANGED <<input, now, limiterVars, appVars>>

GetRemainingMessages ==
    /\ call.op = "none"
    /\ input.kind = "table"
    /\ call' = Called("_get_remaining_messages", 0, FALSE,
                      _get_remaining_messages(input.df, _extract_transaction_sessions(input.df)))
    /\ UNCHANGED <<input, now, limiterVars, appVars>>

\* The browser sessions.
Users == {"u1", "u2"}

\* The record of a script run: who ran it and for what, the steps taken, the
\* banner shown, the provider the app object held, what was raised.
NoRun == [user |-> "none", action |-> "none", events |-> <<>>, banner |-> "none",
          provider |-> "none", config_before |-> "none", choice |-> "none",
          valid_csv |-> FALSE, upload_ext |-> "none", upload_bytes |-> 0,
          parse_raised |-> "none", rate_checks |-> 0,
          analyze_calls |-> 0, endpoint_requests |-> 0, analyzed_parsed_text |-> FALSE,
          dangerous |-> FALSE, analyze_inner |-> "none", analyze_raised |-> "none",
          raised |-> "none", escaped |-> "none", query_health |-> "none"]

AppIdle ==
    /\ config_model_provider = "gemini"
    /\ env = [gemini_api_key |-> TRUE, is_cloud_env |-> FALSE, ollama_up |-> FALSE]
    /\ session_state = [u \in Users |->
          [selected_model_provider |-> "gemini", selected_input_method |-> "paste",
           use_iris_cms_filtering |-> FALSE, example_logs_loaded |-> FALSE,
           example_logs_content |-> "none", parsed_example_logs |-> FALSE]]
    /\ run = NoRun
    /\ runs = 0
    /\ analyze_window = [u \in Users |-> [start |-> 0, calls |-> 0]]

FileIdle ==
    /\ input = [kind |-> "none", df |-> NoTable, log_file |-> NoFile, payload |-> NoText,
                expected |-> NoneId]
    /\ call = NoFileCall

InitFile ==
    /\ input \in FileInputs
    /\ call = NoFileCall
    /\ now = 0
    /\ InitLimiterVars
    /\ AppIdle

NextFile ==
    \/ \E flag \in BOOLEAN : ParseFileToText(flag)
    \/ FilterHeartbeatAndBootNotificationMessages
    \/ FilterIrisCmsLogs
    \/ ConvertToTextFormat
    \/ ExtractTransactionSessions
    \/ ExtractTransactionIds
    \/ ExtractTransactionIdFromPayload
    \/ \E tx_id \in 0..MaxTxId : GetMessagesForTransaction(tx_id)
    \/ GetRemainingMessages

SpecFile == InitFile /\ [][NextFile]_vars

InitLimiter ==
    /\ now = 0
    /\ InitLimiterVars
    /\ FileIdle
    /\ AppIdle

NextLimiter ==
    \/ \E d \in Steps : Tick(d)
    \/ \E s \in SessionIds : CheckRateLimit(s)
    \/ \E s \in SessionIds : GetRemainingRequests(s)
    \/ \E s \in SessionIds : ResetSession(s)

SpecLimiter == InitLimiter /\ [][NextLimiter]_vars

\* =========================================================================
\* src/services/gemini_service.py and src/services/ollama_service.py : what
\* analyze_logs does with the text the model returned. The two services hold
\* the same code for it (gemini_service.py:160-240, ollama_service.py:225-305).
\* =========================================================================

\* regex \w for the characters in use
IsWordChar(c) ==
    \/ IsDigit(c)
    \/ c = "_"
    \/ \E i \in 1..Len(UpperLetters) : UpperLetters[i] = c \/ LowerLetters[i] = c

\* regex \b before the character at index i (i = Len(s) + 1: at the end)
WordBoundary(s, i) ==
    (i > 1 /\ i - 1 <= Len(s) /\ IsWordChar(s[i - 1])) # (i <= Len(s) /\ IsWordChar(s[i]))

\* A match of a pattern at an index: the index after the match (0: no match
\* here) and the text that replaces it.
NoSub == [end |-> 0, repl |-> <<>>]

\* The backquote character, which a string of this language cannot hold.
Backquote == "backquote"

\* the replacement template: the text between two asterisks and a backquote
\* on each side
Mark(t) == <<"*", "*", Backquote>> \o t \o <<Backquote, "*", "*">>

RECURSIVE SubFrom(_, _, _)
\* re.sub over s from index i: the leftmost match is replaced and the scan
\* goes on after it; m[k] is the match of the pattern at index k.
SubFrom(s, m, i) ==
    IF \E j \in i..Len(s) : m[j].end > j
    THEN LET j == CHOOSE j \in i..Len(s) :
                      m[j].end > j /\ \A k \in i..(j - 1) : m[k].end = 0
         IN  SubSeq(s, i, j - 1) \o m[j].repl \o SubFrom(s, m, m[j].end)
    ELSE SubSeq(s, i, Len(s))

\* gemini_service.py:163-167
\* \b(transactionId|TransactionId|transaction_id|Transaction ID)\s*:?\s*(\d+)\b
\* with re.IGNORECASE, replaced by group 1, a colon, a space and group 2, marked
transaction_id_words == << <<"t", "r", "a", "n", "s", "a", "c", "t", "i", "o", "n", "I", "d">>, <<"T", "r", "a", "n", "s", "a", "c", "t", "i", "o", "n", "I", "d">>, <<"t", "r", "a", "n", "s", "a", "c", "t", "i", "o", "n", "_", "i", "d">>, <<"T", "r", "a", "n", "s", "a", "c", "t", "i", "o", "n", " ", "I", "D">> >>

TransactionIdMatch(s, i) ==
    IF ~WordBoundary(s, i)
       \/ ~\E n \in 1..Len(transaction_id_words) : LitAt(Lower(s), i, Lower(transaction_id_words[n]))
    THEN NoSub
    ELSE
    LET n  == CHOOSE n \in 1..Len(transaction_id_words) :
                  /\ LitAt(Lower(s), i, Lower(transaction_id_words[n]))
                  /\ \A k \in 1..(n - 1) : ~LitAt(Lower(s), i, Lower(transaction_id_words[k]))
        w  == Len(transaction_id_words[n])
        j1 == SpaceRunEnd(s, i + w)
        j2 == IF LitAt(s, j1, <<":">>) THEN j1 + 1 ELSE j1
        j3 == SpaceRunEnd(s, j2)
        e  == DigitRunEnd(s, j3)
    IN  IF e > j3 /\ WordBoundary(s, e)
        THEN [end |-> e,
              repl |-> Mark(SubSeq(s, i, i + w - 1) \o <<":", " ">> \o SubSeq(s, j3, e - 1))]
        ELSE NoSub

HighlightTransactionIds(s) == SubFrom(s, [i \in 1..Len(s) |-> TransactionIdMatch(s, i)], 1)

DigitsAt(s, i, n) == i + n - 1 <= Len(s) /\ \A k \in i..(i + n - 1) : IsDigit(s[k])

am_pm == << <<"A", "M">>, <<"P", "M">>, <<"a", "m">>, <<"p", "m">> >>
time_zones == << <<"I", "S", "T">>, <<"U", "T", "C">>, <<"G", "M", "T">> >>
AnyLitAt(s, i, lits) == \E n \in 1..Len(lits) : LitAt(s, i, lits[n])

\* The ways \s*(?:AM|PM|am|pm)?\s*(?:IST|UTC|GMT)?\b can be tried from index
\* b: the spaces taken and whether each optional word is taken.
TailEndOf(b, c) ==
    b + c.k1 + (IF c.ampm THEN 2 ELSE 0) + c.k2 + (IF c.tz THEN 3 ELSE 0)

TimestampTails(s, b) ==
    { c \in [k1 : 0..(SpaceRunEnd(s, b) - b), ampm : BOOLEAN, k2 : 0..Len(s), tz : BOOLEAN] :
        LET p1 == b + c.k1
            p2 == IF c.ampm THEN p1 + 2 ELSE p1
            p3 == p2 + c.k2
        IN  /\ (c.ampm => AnyLitAt(s, p1, am_pm))
            /\ p2 <= Len(s) + 1
            /\ c.k2 <= SpaceRunEnd(s, p2) - p2
            /\ (c.tz => AnyLitAt(s, p3, time_zones))
            /\ WordBoundary(s, TailEndOf(b, c)) }

\* The order in which the regex engine tries them: every quantifier is
\* greedy, so more spaces before fewer and a word taken before it left out.
TailRank(s, b, c) ==
    LET max1 == SpaceRunEnd(s, b) - b
        p2   == b + c.k1 + (IF c.ampm THEN 2 ELSE 0)
        max2 == SpaceRunEnd(s, p2) - p2
        n    == Len(s) + 2
    IN  (((max1 - c.k1) * 2 + (IF c.ampm THEN 0 ELSE 1)) * n + (max2 - c.k2)) * 2
        + (IF c.tz THEN 0 ELSE 1)

\* index after the first tail the engine finds from b, 0 when there is none
TimestampTailEnd(s, b) ==
    IF b > Len(s) + 1 \/ TimestampTails(s, b) = {} THEN 0
    ELSE TailEndOf(b, CHOOSE c \in TimestampTails(s, b) :
                          \A d \in TimestampTails(s, b) : TailRank(s, b, c) <= TailRank(s, b, d))

\* gemini_service.py:170-174
\* \b(\d{1,2}:\d{2}:\d{2}(?::\d{2})?\s*(?:AM|PM|am|pm)?\s*(?:IST|UTC|GMT)?)\b
\* replaced by group 1, marked
TimestampMatch(s, i) ==
    LET h  == IF DigitsAt(s, i, 2) /\ LitAt(s, i + 2, <<":">>) THEN 2
              ELSE IF DigitsAt(s, i, 1) /\ LitAt(s, i + 1, <<":">>) THEN 1 ELSE 0
        b0 == i + h + 6
        b1 == b0 + 3
        with_seconds == /\ LitAt(s, b0, <<":">>) /\ DigitsAt(s, b0 + 1, 2)
                        /\ TimestampTailEnd(s, b1) > 0
    IN  IF /\ WordBoundary(s, i)
           /\ h > 0
           /\ DigitsAt(s, i + h + 1, 2) /\ LitAt(s, i + h + 3, <<":">>)
           /\ DigitsAt(s, i + h + 4, 2)
        THEN LET e == IF with_seconds THEN TimestampTailEnd(s, b1) ELSE TimestampTailEnd(s, b0)
             IN  IF e > 0 THEN [end |-> e, repl |-> Mark(SubSeq(s, i, e - 1))] ELSE NoSub
        ELSE NoSub

HighlightTimestamps(s) == SubFrom(s, [i \in 1..Len(s) |-> TimestampMatch(s, i)], 1)

\* gemini_service.py:177-181
\* \b(\d{1,2}/\d{1,2}/\d{4}|\d{4}-\d{2}-\d{2})\b  replaced by group 1, marked
DateMatch(s, i) ==
    LET d  == IF DigitsAt(s, i, 2) /\ LitAt(s, i + 2, <<"/">>) THEN 2
              ELSE IF DigitsAt(s, i, 1) /\ LitAt(s, i + 1, <<"/">>) THEN 1 ELSE 0
        j  == i + d + 1
        m  == IF DigitsAt(s, j, 2) /\ LitAt(s, j + 2, <<"/">>) THEN 2
              ELSE IF DigitsAt(s, j, 1) /\ LitAt(s, j + 1, <<"/">>) THEN 1 ELSE 0
        y  == j + m + 1
        e  == IF d > 0 /\ m > 0 /\ DigitsAt(s, y, 4) /\ WordBoundary(s, y + 4) THEN y + 4
              ELSE IF /\ DigitsAt(s, i, 4) /\ LitAt(s, i + 4, <<"-">>)
                      /\ DigitsAt(s, i + 5, 2) /\ LitAt(s, i + 7, <<"-">>)
                      /\ DigitsAt(s, i + 8, 2) /\ WordBoundary(s, i + 10) THEN i + 10
              ELSE 0
    IN  IF WordBoundary(s, i) /\ e > 0
        THEN [end |-> e, repl |-> Mark(SubSeq(s, i, e - 1))]
        ELSE NoSub

HighlightDates(s) == SubFrom(s, [i \in 1..Len(s) |-> DateMatch(s, i)], 1)

\* gemini_service.py:184-190  each a \b(word|word|...)\b
error_patterns == <<
    << <<"E", "R", "R", "O", "R">>,
       <<"E", "r", "r", "o", "r">>,
       <<"e", "r", "r", "o", "r">>,
       <<"F", "A", "I", "L", "E", "D">>,
       <<"F", "a", "i", "l", "e", "d">>,
       <<"f", "a", "i", "l", "e", "d">>,
       <<"R", "E", "J", "E", "C", "T", "E", "D">>,
       <<"R", "e", "j", "e", "c", "t", "e", "d">>,
       <<"r", "e", "j", "e", "c", "t", "e", "d">>,
       <<"T", "I", "M", "E", "O", "U", "T">>,
       <<"T", "i", "m", "e", "o", "u", "t">>,
       <<"t", "i", "m", "e", "o", "u", "t">> >>,
    << <<"N", "o", "t", "I", "m", "p", "l", "e", "m", "e", "n", "t", "e", "d">>,
       <<"N", "O", "T", "_", "I", "M", "P", "L", "E", "M", "E", "N", "T", "E", "D">>,
       <<"n", "o", "t", "_", "i", "m", "p", "l", "e", "m", "e", "n", "t", "e", "d">> >>,
    << <<"A", "u", "t", "h", "o", "r", "i", "z", "a", "t", "i", "o", "n", "F", "a", "i", "l", "e", "d">>,
       <<"A", "U", "T", "H", "O", "R", "I", "Z", "A", "T", "I", "O", "N", "_", "F", "A", "I", "L", "E", "D">>,
       <<"a", "u", "t", "h", "o", "r", "i", "z", "a", "t", "i", "o", "n", "_", "f", "a", "i", "l", "e", "d">> >>,
    << <<"C", "o", "n", "n", "e", "c", "t", "o", "r", "U", "n", "a", "v", "a", "i", "l", "a", "b", "l", "e">>,
       <<"C", "O", "N", "N", "E", "C", "T", "O", "R", "_", "U", "N", "A", "V", "A", "I", "L", "A", "B", "L", "E">>,
       <<"c", "o", "n", "n", "e", "c", "t", "o", "r", "_", "u", "n", "a", "v", "a", "i", "l", "a", "b", "l", "e">> >>,
    << <<"I", "n", "t", "e", "r", "n", "a", "l", "E", "r", "r", "o", "r">>,
       <<"I", "N", "T", "E", "R", "N", "A", "L", "_", "E", "R", "R", "O", "R">>,
       <<"i", "n", "t", "e", "r", "n", "a", "l", "_", "e", "r", "r", "o", "r">> >> >>

\* the first word of the alternation that matches at i between two \b
WordMatch(s, i, words) ==
    IF /\ WordBoundary(s, i)
       /\ \E n \in 1..Len(words) : LitAt(s, i, words[n]) /\ WordBoundary(s, i + Len(words[n]))
    THEN LET n == CHOOSE n \in 1..Len(words) :
                      /\ LitAt(s, i, words[n]) /\ WordBoundary(s, i + Len(words[n]))
                      /\ \A k \in 1..(n - 1) :
                            ~(LitAt(s, i, words[k]) /\ WordBoundary(s, i + Len(words[k])))
         IN  [end |-> i + Len(words[n]), repl |-> Mark(words[n])]
    ELSE NoSub

HighlightWords(s, words) == SubFrom(s, [i \in 1..Len(s) |-> WordMatch(s, i, words)], 1)

RECURSIVE HighlightErrors(_, _)
\* gemini_service.py:192-193  for pattern in error_patterns: text = re.sub(...)
HighlightErrors(s, n) ==
    IF n > Len(error_patterns) THEN s
    ELSE HighlightErrors(HighlightWords(s, error_patterns[n]), n + 1)

\* gemini_service.py:160-195
_highlight_key_elements(text) ==
    HighlightErrors(HighlightDates(HighlightTimestamps(HighlightTransactionIds(text))), 1)

\* gemini_service.py:222-240  what the two number readers answer: the number
\* read, or ok = FALSE where int() or float() raises ValueError.
NotANumber == [ok |-> FALSE, value |-> 0]

\* str.strip()
Strip(t) ==
    IF \A k \in 1..Len(t) : IsSpace(t[k]) THEN <<>>
    ELSE LET a == CHOOSE a \in 1..Len(t) : ~IsSpace(t[a]) /\ \A k \in 1..(a - 1) : IsSpace(t[k])
             b == CHOOSE b \in 1..Len(t) : ~IsSpace(t[b]) /\ \A k \in (b + 1)..Len(t) : IsSpace(t[k])
         IN  SubSeq(t, a, b)

RECURSIVE Split(_, _)
\* str.split(sep) for a separator of one character
Split(s, sep) ==
    IF \E i \in 1..Len(s) : s[i] = sep
    THEN LET i == CHOOSE i \in 1..Len(s) : s[i] = sep /\ \A k \in 1..(i - 1) : s[k] # sep
         IN  <<SubSeq(s, 1, i - 1)>> \o Split(SubSeq(s, i + 1, Len(s)), sep)
    ELSE <<s>>

\* Python's digitpart: decimal digits, single underscores between them allowed
IsDigitPart(t) ==
    /\ Len(t) > 0
    /\ \A k \in 1..Len(t) :
          \/ IsDigit(t[k])
          \/ (t[k] = "_" /\ k > 1 /\ k < Len(t) /\ IsDigit(t[k - 1]) /\ IsDigit(t[k + 1]))
DigitsOf(t) == SelectSeq(t, IsDigit)

IsSign(c) == c \in {"+", "-"}
SignOf(t) == IF Len(t) > 0 /\ t[1] = "-" THEN -1 ELSE 1
Unsigned(t) == IF Len(t) > 0 /\ IsSign(t[1]) THEN Tail(t) ELSE t

\* int(text): an optional sign and a digitpart between optional spaces
py_int(text) ==
    LET body == Unsigned(Strip(text))
    IN  IF IsDigitPart(body)
        THEN [ok |-> TRUE, value |-> SignOf(Strip(text)) * ParseNat(DigitsOf(body))]
        ELSE NotANumber

\* A float: sign * mant * 10^exp with mant not divisible by 10 (zero is
\* 1 * 0 * 10^0, as 0.0 == -0.0), or an infinity, or nan. A double holds the
\* numbers of the model's texts to the digits written.
RECURSIVE Decimal(_, _, _)
Decimal(sign, mant, exp) ==
    IF mant = 0 THEN [kind |-> "finite", sign |-> 1, mant |-> 0, exp |-> 0]
    ELSE IF mant % 10 = 0 THEN Decimal(sign, mant \div 10, exp + 1)
    ELSE [kind |-> "finite", sign |-> sign, mant |-> mant, exp |-> exp]

L_inf == <<"i", "n", "f">>
L_infinity == <<"i", "n", "f", "i", "n", "i", "t", "y">>
L_nan == <<"n", "a", "n">>

\* float(text): [sign] (inf | infinity | nan | digitpart [. [digitpart]] or
\* . digitpart, then an optional e [sign] digitpart), any case, between
\* optional spaces
py_float(text) ==
    LET t    == Lower(Strip(text))
        body == Unsigned(t)
        epos == IF \E i \in 1..Len(body) : body[i] = "e"
                THEN CHOOSE i \in 1..Len(body) : body[i] = "e" /\ \A k \in 1..(i - 1) : body[k] # "e"
                ELSE Len(body) + 1
        num  == SubSeq(body, 1, epos - 1)
        ex   == SubSeq(body, epos + 1, Len(body))
        dot  == IF \E i \in 1..Len(num) : num[i] = "."
                THEN CHOOSE i \in 1..Len(num) : num[i] = "." /\ \A k \in 1..(i - 1) : num[k] # "."
                ELSE Len(num) + 1
        whole == SubSeq(num, 1, dot - 1)
        frac  == SubSeq(num, dot + 1, Len(num))
        num_ok == /\ (whole = <<>> \/ IsDigitPart(whole))
                  /\ (frac = <<>> \/ IsDigitPart(frac))
                  /\ (whole # <<>> \/ frac # <<>>)
        ex_ok  == epos > Len(body) \/ IsDigitPart(Unsigned(ex))
        e      == IF epos > Len(body) THEN 0 ELSE SignOf(ex) * ParseNat(DigitsOf(ex))
    IN  IF body = L_inf \/ body = L_infinity
        THEN [ok |-> TRUE, value |-> [kind |-> "inf", sign |-> SignOf(t), mant |-> 0, exp |-> 0]]
        ELSE IF body = L_nan
        THEN [ok |-> TRUE, value |-> [kind |-> "nan", sign |-> 1, mant |-> 0, exp |-> 0]]
        ELSE IF num_ok /\ ex_ok
        THEN [ok |-> TRUE,
              value |-> Decimal(SignOf(t), ParseNat(DigitsOf(whole) \o DigitsOf(frac)),
                                e - Len(DigitsOf(frac)))]
        ELSE [ok |-> FALSE, value |-> Decimal(1, 0, 0)]

\* gemini_service.py:222-230
_extract_number_from_line(line) ==
    LET parts == Split(line, "|")
    IN  IF Len(parts) >= 3 /\ py_int(parts[3]).ok THEN py_int(parts[3]).value ELSE 0

\* gemini_service.py:232-240
_extract_float_from_line(line) ==
    LET parts == Split(line, "|")
    IN  IF Len(parts) >= 3 /\ py_float(parts[3]).ok THEN py_float(parts[3]).value
        ELSE Decimal(1, 0, 0)

\* models/analysis.py:8-16  SessionSummary()
SessionSummary ==
    [total_sessions |-> 0, successful_sessions |-> 0, failed_sessions |-> 0,
     total_energy_delivered_kwh |-> Decimal(1, 0, 0), pre_charging_failures |-> 0]

M_total_sessions == <<"T", "o", "t", "a", "l", " ", "S", "e", "s", "s", "i", "o", "n", "s">>
M_successful_sessions == <<"S", "u", "c", "c", "e", "s", "s", "f", "u", "l", " ", "S", "e", "s", "s", "i", "o", "n", "s">>
M_failed_sessions == <<"F", "a", "i", "l", "e", "d", " ", "S", "e", "s", "s", "i", "o", "n", "s">>
M_total_energy_delivered == <<"T", "o", "t", "a", "l", " ", "E", "n", "e", "r", "g", "y", " ", "D", "e", "l", "i", "v", "e", "r", "e", "d">>
M_pre_charging_failures == <<"P", "r", "e", "-", "c", "h", "a", "r", "g", "i", "n", "g", " ", "F", "a", "i", "l", "u", "r", "e", "s">>

\* gemini_service.py:205-215  what one line does to the summary
SummaryAfterLine(summary, line) ==
    IF ~Contains(line, <<"|">>) THEN summary
    ELSE IF Contains(line, M_total_sessions)
    THEN [summary EXCEPT !.total_sessions = _extract_number_from_line(line)]
    ELSE IF Contains(line, M_successful_sessions)
    THEN [summary EXCEPT !.successful_sessions = _extract_number_from_line(line)]
    ELSE IF Contains(line, M_failed_sessions)
    THEN [summary EXCEPT !.failed_sessions = _extract_number_from_line(line)]
    ELSE IF Contains(line, M_total_energy_delivered)
    THEN [summary EXCEPT !.total_energy_delivered_kwh = _extract_float_from_line(line)]
    ELSE IF Contains(line, M_pre_charging_failures)
    THEN [summary EXCEPT !.pre_charging_failures = _extract_number_from_line(line)]
    ELSE summary

RECURSIVE SummaryAfterLines(_, _, _)
SummaryAfterLines(summary, lines, n) ==
    IF n > Len(lines) THEN summary
    ELSE SummaryAfterLines(SummaryAfterLine(summary, lines[n]), lines, n + 1)

\* gemini_service.py:197-220  the reads raise nothing the except clause of
\* line 217 would have to take
_extract_summary_from_analysis(analysis_text) ==
    SummaryAfterLines(SessionSummary, Split(analysis_text, "\n"), 1)

\* gemini_service.py:91-99  analyze_logs once the model has answered
process_response(response_text) ==
    LET analysis_text == _highlight_key_elements(response_text)
    IN  [summary |-> _extract_summary_from_analysis(analysis_text),
         detailed_analysis |-> analysis_text]

\* gemini_service.py:65-69, ollama_service.py:100-104  the log content that
\* goes into the prompt (gemini_service.py:77, 146-147)
truncation_notice == <<"\n", "\n", ".", ".", ".", " ", "(", "C", "o", "n", "t", "e", "n", "t", " ", "t", "r", "u", "n", "c", "a", "t", "e", "d", " ", "f", "o", "r", " ", "p", "r", "o", "c", "e", "s", "s", "i", "n", "g", ")">>

limit_content(log_content, max_content_size_kb) ==
    LET max_content_size_bytes == max_content_size_kb * 1024
    IN  IF Len(log_content) > max_content_size_bytes
        THEN SubSeq(log_content, 1, max_content_size_bytes) \o truncation_notice
        ELSE log_content

\* ---- the responses and contents the functions are applied to

\* gemini_service.py:112-123  the summary table the prompt asks for
L_metric_header == <<"|", " ", "M", "e", "t", "r", "i", "c", " ", "|", " ", "V", "a", "l", "u", "e", " ", "|">>
L_metric_rule == <<"|", "-", "-", "-", "-", "-", "-", "-", "-", "|", "-", "-", "-", "-", "-", "-", "-", "|">>
metric_labels == << <<"T", "o", "t", "a", "l", " ", "S", "e", "s", "s", "i", "o", "n", "s">>, <<"S", "u", "c", "c", "e", "s", "s", "f", "u", "l", " ", "S", "e", "s", "s", "i", "o", "n", "s">>, <<"F", "a", "i", "l", "e", "d", " ", "S", "e", "s", "s", "i", "o", "n", "s">>,
                    <<"T", "o", "t", "a", "l", " ", "E", "n", "e", "r", "g", "y", " ", "D", "e", "l", "i", "v", "e", "r", "e", "d", " ", "(", "k", "W", "h", ")">>, <<"P", "r", "e", "-", "c", "h", "a", "r", "g", "i", "n", "g", " ", "F", "a", "i", "l", "u", "r", "e", "s">> >>

TableLine(label, cell) == <<"|", " ">> \o label \o <<" ", "|", " ">> \o cell \o <<" ", "|">>

RECURSIVE JoinLines(_)
JoinLines(lines) ==
    IF Len(lines) = 0 THEN <<>>
    ELSE Head(lines) \o <<"\n">> \o JoinLines(Tail(lines))

\* a response whose table holds the five cells, in the order of the prompt
ResponseText(cells) ==
    JoinLines(<<L_metric_header, L_metric_rule>>
              \o [n \in 1..5 |-> TableLine(metric_labels[n], cells[n])])

\* the session counts of a log: failed of the total, pre-charging of the failed
SummaryCounts ==
    { c \in [total : 0..MaxSessions, failed : 0..MaxSessions, pre : 0..MaxSessions] :
        c.failed <= c.total /\ c.pre <= c.failed }

Energies == [whole : {0, 12}, half : BOOLEAN]
EnergyText(e) == StrOfNat(e.whole) \o (IF e.half THEN <<".", "5">> ELSE <<>>)
EnergyValue(e) == IF e.half THEN Decimal(1, e.whole * 10 + 5, -1) ELSE Decimal(1, e.whole, 0)

\* a response in the required format, with the values its table states
ConformingResponse(c, e) ==
    [kind |-> "response", conforming |-> TRUE,
     text |-> ResponseText(<<StrOfNat(c.total), StrOfNat(c.total - c.failed),
                             StrOfNat(c.failed), EnergyText(e), StrOfNat(c.pre)>>),
     expected |-> [total_sessions |-> c.total, successful_sessions |-> c.total - c.failed,
                   failed_sessions |-> c.failed, total_energy_delivered_kwh |-> EnergyValue(e),
                   pre_charging_failures |-> c.pre]]

\* cells a model may write where the prompt asks for a number
OddCells == { <<"-", "1">>, <<"-", "2">>, <<"x">>, <<"1", "_", "0">>, <<>>, <<"+", "1">>, <<"1", ".", "0">> }

\* a response with one cell that is not the number asked for
OddResponse(row, cell) ==
    [kind |-> "response", conforming |-> FALSE,
     text |-> ResponseText([n \in 1..5 |-> IF n = row THEN cell ELSE <<"1">>]),
     expected |-> SessionSummary]

\* a log content of n characters
Content(n) == [i \in 1..n |-> IF i % 2 = 1 THEN "a" ELSE "b"]

ContentInputs ==
    { [kind |-> "content", max_content_size_kb |-> kb, log_content |-> Content(kb * 1024 + d)] :
        kb \in 1..MaxKb, d \in {-1024, -1, 0, 1, 40, 41} }

AnalysisInputs ==
    { ConformingResponse(c, e) : c \in SummaryCounts, e \in Energies }
    \cup { OddResponse(row, cell) : row \in 1..5, cell \in OddCells }
    \cup ContentInputs

\* gemini_service.py:91-99  the response of the model is processed
ProcessResponse ==
    /\ call = NoFileCall
    /\ input.kind = "response"
    /\ call' = Called("process_response", 0, FALSE, process_response(input.text))
    /\ UNCHANGED <<input, now, limiterVars, appVars>>

\* gemini_service.py:65-77  the log content is limited and put into the prompt
LimitContent ==
    /\ call = NoFileCall
    /\ input.kind = "content"
    /\ call' = Called("limit_content", 0, FALSE,
                      limit_content(input.log_content, input.max_content_size_kb))
    /\ UNCHANGED <<input, now, limiterVars, appVars>>

InitAnalysis ==
    /\ input \in AnalysisInputs
    /\ call = NoFileCall
    /\ now = 0
    /\ InitLimiterVars
    /\ AppIdle

NextAnalysis ==
    \/ ProcessResponse
    \/ LimitContent

SpecAnalysis == InitAnalysis /\ [][NextAnalysis]_vars

\* =========================================================================
\* app.py : the running application. Streamlit executes the script, main(),
\* once per user action; every action below is one such execution for the
\* user u, from IrisAgentApp() to the end of run() (and through the rerun
\* that st.rerun() asks for).
\* =========================================================================

\* exceptions.py:4-46 and the library classes the code meets: each class and
\* its base class. RerunException is what st.rerun() raises; Streamlit derives
\* it from BaseException, so "except Exception" does not catch it.
Parent ==
    [RateLimitError |-> "APIError", APIError |-> "IrisAgentError",
     FileSizeError |-> "FileProcessingError", FileFormatError |-> "FileProcessingError",
     FileProcessingError |-> "IrisAgentError", SecurityError |-> "IrisAgentError",
     AnalysisError |-> "IrisAgentError", ConfigurationError |-> "IrisAgentError",
     IrisAgentError |-> "Exception",
     AttributeError |-> "Exception", ValueError |-> "Exception",
     UnicodeDecodeError |-> "ValueError", ParserError |-> "ValueError",
     OSError |-> "Exception", RequestException |-> "OSError",
     Timeout |-> "RequestException", ConnectionError |-> "RequestException",
     GoogleAPIError |-> "Exception", DeadlineExceeded |-> "GoogleAPIError",
     Exception |-> "BaseException", RerunException |-> "BaseException"]

RECURSIVE IsInstance(_, _)
\* isinstance(exc, cls)
IsInstance(exc, cls) ==
    \/ exc = cls
    \/ exc \in DOMAIN Parent /\ IsInstance(Parent[exc], cls)

\* The first except clause that takes exc, and the banner it shows: the
\* exception's own message (shows = "str(e)", written as the class of the
\* exception) or a fixed text. No clause: the exception leaves the handler.
RECURSIVE Catch(_, _)
Catch(excepts, exc) ==
    IF Len(excepts) = 0 THEN [caught |-> FALSE, banner |-> "none"]
    ELSE IF \E c \in Head(excepts).classes : IsInstance(exc, c)
    THEN [caught |-> TRUE,
          banner |-> IF Head(excepts).shows = "str(e)" THEN exc ELSE Head(excepts).shows]
    ELSE Catch(Tail(excepts), exc)

\* app.py:554-561  the except clauses of _analyze_text
analyze_text_excepts_no_catch_all ==
    << [classes |-> {"RateLimitError"}, shows |-> "str(e)"],
       [classes |-> {"APIError", "AnalysisError"}, shows |-> "service unavailable"] >>
analyze_text_excepts ==
    << [classes |-> {"RateLimitError"}, shows |-> "str(e)"],
       [classes |-> {"APIError", "AnalysisError"}, shows |-> "service unavailable"],
       [classes |-> {"Exception"}, shows |-> "unexpected error"] >>

\* app.py:619-628  the except clauses of _analyze_file
analyze_file_excepts ==
    << [classes |-> {"FileProcessingError", "SecurityError"}, shows |-> "str(e)"],
       [classes |-> {"RateLimitError"}, shows |-> "str(e)"],
       [classes |-> {"APIError", "AnalysisError"}, shows |-> "service unavailable"],
       [classes |-> {"Exception"}, shows |-> "unexpected error"] >>

\* app.py:663-664  the except clause of _parse_example_logs
parse_example_excepts ==
    << [classes |-> {"Exception"}, shows |-> "str(e)"] >>

\* app.py:689-697  the except clauses of _analyze_example_logs
analyze_example_excepts ==
    << [classes |-> {"RateLimitError"}, shows |-> "str(e)"],
       [classes |-> {"APIError", "AnalysisError"}, shows |-> "service unavailable"],
       [classes |-> {"Exception"}, shows |-> "unexpected error"] >>

\* app.py:821-823  main(): what leaves run() is caught here
main_excepts ==
    << [classes |-> {"Exception"}, shows |-> "startup failed"] >>

\* validators.py:46  dangerous_patterns
D_script == <<"<", "s", "c", "r", "i", "p", "t", ">">>
D_javascript == <<"j", "a", "v", "a", "s", "c", "r", "i", "p", "t", ":">>
D_vbscript == <<"v", "b", "s", "c", "r", "i", "p", "t", ":">>
dangerous_patterns == <<D_script, D_javascript, D_vbscript>>

\* validators.py:33-53  pattern.lower() in text.lower(), first hit raises
sanitize_input(text) ==
    IF \E k \in 1..Len(dangerous_patterns) : Contains(Lower(text), Lower(dangerous_patterns[k]))
    THEN "SecurityError" ELSE "True"

\* str.strip() leaves nothing
IsBlank(text) == \A i \in 1..Len(text) : IsSpace(text[i])

\* What the user may paste into the text area.
PastedTexts == {
    <<" ", " ">>,
    <<"S", "t", "a", "r", "t", "T", "r", "a", "n", "s", "a", "c", "t", "i", "o", "n", " ", "{", "\"", "t", "r", "a", "n", "s", "a", "c", "t", "i", "o", "n", "I", "d", "\"", ":", "1", "}">>,
    <<"<", "S", "C", "R", "I", "P", "T", ">", "x", "<", "/", "s", "c", "r", "i", "p", "t", ">">> }

\* What the user may hand to the file uploader (type=['csv', 'xlsx']): the
\* extension of its name, whether its bytes decode as UTF-8, the size of its
\* content, whether the pandas reader accepts it, the table it holds.
Uploads ==
    { [ext |-> "csv", utf8 |-> TRUE, content_bytes |-> b, parses |-> p, table |-> SampleTable] :
        b \in {1024, max_file_size_mb * 1024 * 1024 + 1}, p \in BOOLEAN }
    \cup
    { [ext |-> "xlsx", utf8 |-> FALSE, content_bytes |-> 1024, parses |-> TRUE,
       table |-> SampleTable],
      [ext |-> "csv", utf8 |-> FALSE, content_bytes |-> 1024, parses |-> FALSE,
       table |-> SampleTable] }

\* No file chosen in the uploader (uploaded_file is None).
NoUpload == [ext |-> "none", utf8 |-> FALSE, content_bytes |-> 0, parses |-> FALSE,
             table |-> NoTable]

\* app.py:71-124  _initialize_model_provider: the provider the new app object
\* holds, "none" for None. e is the environment: whether GEMINI_API_KEY is set,
\* whether the cloud test of lines 89-95 holds, whether the Ollama server
\* answers with a model (ollama_service.py:40-79). Every exception is caught
\* at line 119 and leaves the provider None.
initialize_model_provider_no_cloud_test(provider, e) ==
    IF provider = "gemini"
    THEN IF e.gemini_api_key THEN "gemini" ELSE "none"
    ELSE IF provider = "ollama"
    THEN IF e.ollama_up THEN "ollama" ELSE "none"
    ELSE "none"
initialize_model_provider(provider, e) ==
    IF provider = "gemini"
    THEN IF e.gemini_api_key THEN "gemini" ELSE "none"
    ELSE IF provider = "ollama"
    THEN IF e.is_cloud_env
         THEN IF e.gemini_api_key THEN "gemini" ELSE "none"
         ELSE IF e.ollama_up THEN "ollama" ELSE "none"
    ELSE "none"

\* settings.py:47-64  __post_init__: MODEL_PROVIDER, turned to gemini when it
\* names ollama in a cloud environment.
post_init_model_provider(env_provider, e) ==
    IF env_provider = "ollama" /\ e.is_cloud_env THEN "gemini" ELSE env_provider

\* What the model endpoint does with a request.
Endpoint == {"answers", "error_status", "times_out", "connection_lost", "bad_response"}

\* gemini_service.py:84-91  generate_content(prompt), response.text: what the
\* client library raises.
gemini_generate(endpoint) ==
    CASE endpoint = "answers" -> "none"
      [] endpoint = "error_status" -> "GoogleAPIError"
      [] endpoint = "times_out" -> "DeadlineExceeded"
      [] endpoint = "connection_lost" -> "GoogleAPIError"
      [] endpoint = "bad_response" -> "ValueError"

\* ollama_service.py:137-168  _generate_response: one requests.post; the
\* APIError of line 158 is raised inside the try and leaves through the
\* "except Exception" of line 167.
_generate_response(endpoint) ==
    CASE endpoint = "answers" -> "none"
      [] endpoint = "error_status" -> "AnalysisError"
      [] endpoint = "times_out" -> "AnalysisError"
      [] endpoint = "connection_lost" -> "APIError"
      [] endpoint = "bad_response" -> "AnalysisError"

\* Requests sent to the endpoint by one analyze_logs call: none when the
\* content is refused, else the single generate_content / requests.post.
EndpointRequestsWithRetry(dangerous, endpoint) ==
    IF dangerous THEN 0 ELSE IF endpoint = "answers" THEN 1 ELSE 2
EndpointRequests(dangerous, endpoint) ==
    IF dangerous THEN 0 ELSE 1

\* gemini_service.py:101-103, ollama_service.py:133-135
\* "except Exception as e: raise AnalysisError(...)"
RaiseAsGiven(exc) == exc
RaiseAsAnalysisError(exc) ==
    IF exc # "none" /\ IsInstance(exc, "Exception") THEN "AnalysisError" ELSE exc

\* gemini_service.py:41-103 / ollama_service.py:81-135  analyze_logs of the
\* provider on safe or dangerous content: what the try block raises (inner),
\* what the call raises, the requests it sent.
analyze_logs(provider, dangerous, endpoint) ==
    LET inner == IF dangerous THEN "SecurityError"
                 ELSE IF provider = "gemini" THEN gemini_generate(endpoint)
                 ELSE _generate_response(endpoint)
    IN  [inner |-> inner, raised |-> RaiseAsAnalysisError(inner),
         endpoint_requests |-> EndpointRequests(dangerous, endpoint)]

\* app.py:701-727  _display_analysis_result: the report is rendered, or the
\* PDF builder raises.
_display_analysis_result(display_ok) == IF display_ok THEN "none" ELSE "Exception"

\* What the outside world does during one Analyze action.
Worlds ==
    { [endpoint |-> e, display_ok |-> TRUE] : e \in Endpoint }
    \cup { [endpoint |-> "answers", display_ok |-> FALSE] }

\* app.py:38-48  IrisAgentApp.__init__ builds a new RateLimiter: its
\* request_counts start empty in every script run.
NewRateLimiterCounts == <<>>

\* app.py:544-552, 610-617, 678-687  the body the three Analyze handlers
\* share: check_rate_limit(), analyze_logs(...), _display_analysis_result(...).
\* r is the run record so far; the result holds the exception the body raises.
RateCheckAndAnalyze(r, dangerous, world, fromParsedText) ==
    LET chk == check_rate_limit(NewRateLimiterCounts, "default", now)
        r1  == [r EXCEPT !.events = Append(@, "check_rate_limit"), !.rate_checks = @ + 1]
    IN  IF chk.result = "RateLimitError"
        THEN [run |-> r1, counts |-> chk.request_counts, raised |-> "RateLimitError"]
        ELSE LET a  == analyze_logs(r.provider, dangerous, world.endpoint)
                 r2 == [r1 EXCEPT !.events = Append(@, "analyze_logs"),
                                  !.analyze_calls = @ + 1,
                                  !.endpoint_requests = @ + a.endpoint_requests,
                                  !.analyzed_parsed_text = fromParsedText,
                                  !.dangerous = dangerous,
                                  !.analyze_inner = a.inner,
                                  !.analyze_raised = a.raised]
                 d  == _display_analysis_result(world.display_ok)
             IN  IF a.raised # "none"
                 THEN [run |-> r2, counts |-> chk.request_counts, raised |-> a.raised]
                 ELSE IF d # "none"
                 THEN [run |-> [r2 EXCEPT !.events = Append(@, "display")],
                       counts |-> chk.request_counts, raised |-> d]
                 ELSE [run |-> [r2 EXCEPT !.events = Append(@, "display"),
                                          !.banner = "result"],
                       counts |-> chk.request_counts, raised |-> "none"]

\* The try statement of a handler around its body: the run record once the
\* except clauses have dealt with what the body raised. What no clause takes
\* leaves the handler and run(), and main() (app.py:821-823) reports it.
Handled(excepts, body) ==
    IF body.raised = "none" THEN body.run
    ELSE LET c == Catch(excepts, body.raised)
         IN  IF c.caught
             THEN [body.run EXCEPT !.raised = body.raised, !.banner = c.banner]
             ELSE [body.run EXCEPT !.raised = body.raised, !.escaped = body.raised,
                                   !.banner = Catch(main_excepts, body.raised).banner]

\* The ghost of a counter that outlives script runs: the window an Analyze
\* action of the user falls into and the analyze_logs calls made in it.
GhostWindow(w, called) ==
    LET w1 == IF w.calls = 0 \/ now - w.start > Window
              THEN [start |-> now, calls |-> 0] ELSE w
    IN  IF called THEN [w1 EXCEPT !.calls = @ + 1] ELSE w1

FinishRun(u, r, counts) ==
    /\ run' = r
    /\ runs' = runs + 1
    /\ request_counts' = counts
    /\ analyze_window' = [analyze_window EXCEPT ![u] =
                             IF r.rate_checks > 0 THEN GhostWindow(@, r.analyze_calls > 0) ELSE @]

\* app.py:38-48  IrisAgentApp(): the provider is initialised from the
\* process-wide config.model_provider.
StartRun(u, action) ==
    [NoRun EXCEPT !.user = u, !.action = action,
                  !.config_before = config_model_provider,
                  !.provider = initialize_model_provider(config_model_provider, env)]

\* What the text-area handler finds in each text: log_text.strip() empty
\* (app.py:484), sanitize_input refusing it (gemini_service.py:58).
PastedTextFacts ==
    [t \in PastedTexts |->
        [blank |-> IsBlank(t), dangerous |-> sanitize_input(t) = "SecurityError"]]

\* app.py:483-487, 535-561  "Analyze Pasted Logs"
AnalyzePastedLogs(u, log_text, world) ==
    /\ runs < MaxRuns
    /\ session_state[u].selected_input_method = "paste"
    /\ LET r0 == StartRun(u, "AnalyzePastedLogs")
       IN  IF PastedTextFacts[log_text].blank
           THEN FinishRun(u, [r0 EXCEPT !.banner = "please paste"], NewRateLimiterCounts)
           ELSE IF r0.provider = "none"
           THEN FinishRun(u, [r0 EXCEPT !.banner = "provider not available"], NewRateLimiterCounts)
           ELSE LET t == RateCheckAndAnalyze(r0, PastedTextFacts[log_text].dangerous,
                                             world, FALSE)
                IN  FinishRun(u, Handled(analyze_text_excepts, t), t.counts)
    /\ UNCHANGED <<now, config_model_provider, env, session_state, fileVars,
                   last_call, window_calls, grant_times, reset_used, calls>>

\* app.py:569-587  what _analyze_file makes of the upload before parsing
LogFileOf(upload) ==
    [file_type |-> upload.ext, content_is_str |-> upload.ext = "csv",
     content_bytes |-> upload.content_bytes, parses |-> upload.parses, table |-> upload.table]

ValidCsv(upload) ==
    /\ upload.ext = "csv"
    /\ upload.utf8
    /\ upload.parses
    /\ upload.content_bytes <= max_file_size_mb * 1024 * 1024

\* Whether the parsed text, were one returned, holds a dangerous pattern: the
\* text is scaffolding, column names and the cells of the filtered rows.
ParsedTextDangerous(rows) ==
    \E k \in 1..Len(rows) : \E c \in 1..Len(columns) :
        sanitize_input(rows[k][columns[c]]) = "SecurityError"

\* What open('example_OCPP_log.csv') may hold in the working directory: a CSV
\* table, or text the CSV reader refuses.
ExampleContents == {"csv", "garbage"}

\* The loaded example content as a LogFile (app.py:649-654).
ExampleLogFile(content) ==
    [file_type |-> "csv", content_is_str |-> TRUE, content_bytes |-> 1024,
     parses |-> content = "csv", table |-> SampleTable]

\* app.py:590-594, 656-659  self.file_processor.parse_file_to_text(log_file,
\* use_iris_cms_filtering=...) on each LogFile the handlers build, with what
\* sanitize_input would find in the text.
ParsedLogFiles ==
    [f \in {LogFileOf(up) : up \in Uploads} \cup {ExampleLogFile(c) : c \in ExampleContents},
     flag \in BOOLEAN |->
        LET pr == parse_file_to_text(f, flag)
        IN  [raised |-> pr.raised, is_none |-> pr.is_none, text |-> pr.text,
             dangerous |-> ParsedTextDangerous(pr.filtered_df_csv)]]

\* app.py:568-617  the try body of _analyze_file
AnalyzeFileBody(r0, upload, flag, world) ==
    LET r1 == [r0 EXCEPT !.events = Append(@, "upload")]
        pr == ParsedLogFiles[LogFileOf(upload), flag]
        r2 == [r1 EXCEPT !.events = Append(@, "parse_file_to_text"),
                         !.parse_raised = pr.raised]
    IN  IF upload.ext = "csv" /\ ~upload.utf8
        THEN [run |-> r1, counts |-> NewRateLimiterCounts, raised |-> "UnicodeDecodeError"]
        ELSE IF pr.raised # "none"
        THEN [run |-> r2, counts |-> NewRateLimiterCounts, raised |-> pr.raised]
        ELSE IF pr.is_none \/ Len(pr.text) = 0      \* "if parsed_text:" is false
        THEN [run |-> r2, counts |-> NewRateLimiterCounts, raised |-> "none"]
        ELSE RateCheckAndAnalyze(r2, pr.dangerous, world, TRUE)

\* app.py:498-502, 563-628  "Analyze File"
AnalyzeFile(u, upload, world) ==
    /\ runs < MaxRuns
    /\ session_state[u].selected_input_method = "upload"
    /\ LET r0 == [StartRun(u, "AnalyzeFile") EXCEPT !.valid_csv = ValidCsv(upload),
                                                    !.upload_ext = upload.ext,
                                                    !.upload_bytes = upload.content_bytes]
       IN  IF upload = NoUpload
           THEN FinishRun(u, [r0 EXCEPT !.banner = "please upload"], NewRateLimiterCounts)
           ELSE IF r0.provider = "none"
           THEN FinishRun(u, [r0 EXCEPT !.banner = "provider not available"], NewRateLimiterCounts)
           ELSE LET t == AnalyzeFileBody(r0, upload, session_state[u].use_iris_cms_filtering,
                                         world)
                IN  FinishRun(u, Handled(analyze_file_excepts, t), t.counts)
    /\ UNCHANGED <<now, config_model_provider, env, session_state, fileVars,
                   last_call, window_calls, grant_times, reset_used, calls>>

\* app.py:512-513, 630-642  "Load Example Logs": the file is missing
\* (FileNotFoundError, a banner) or read into the session, then st.rerun()
LoadExampleLogs(u, file) ==
    /\ runs < MaxRuns
    /\ session_state[u].selected_input_method = "example"
    /\ session_state' = IF file = "missing" THEN session_state
                        ELSE [session_state EXCEPT ![u].example_logs_loaded = TRUE,
                                                   ![u].example_logs_content = file]
    /\ FinishRun(u, [StartRun(u, "LoadExampleLogs") EXCEPT
                        !.banner = IF file = "missing" THEN "not found" ELSE "none"],
                 NewRateLimiterCounts)
    /\ UNCHANGED <<now, config_model_provider, env, fileVars,
                   last_call, window_calls, grant_times, reset_used, calls>>

\* app.py:516-517, 644-666  "Parse Example Logs"
ParseExampleLogs(u) ==
    /\ runs < MaxRuns
    /\ session_state[u].selected_input_method = "example"
    /\ LET r0 == StartRun(u, "ParseExampleLogs")
           content == session_state[u].example_logs_content
           pr == ParsedLogFiles[ExampleLogFile(content),
                                session_state[u].use_iris_cms_filtering]
           r1 == [r0 EXCEPT !.events = Append(@, "parse_file_to_text"),
                            !.parse_raised = pr.raised]
           body == [run |-> r1, counts |-> NewRateLimiterCounts, raised |-> pr.raised]
       IN  IF content = "none"
           THEN /\ FinishRun(u, [r0 EXCEPT !.banner = "please load"], NewRateLimiterCounts)
                /\ UNCHANGED session_state
           ELSE IF pr.raised # "none"
           THEN /\ FinishRun(u, Handled(parse_example_excepts, body), NewRateLimiterCounts)
                /\ UNCHANGED session_state
           ELSE IF pr.is_none \/ Len(pr.text) = 0
           THEN /\ FinishRun(u, r1, NewRateLimiterCounts)   \* "if parsed_example:" is false
                /\ UNCHANGED session_state
           ELSE /\ FinishRun(u, [r1 EXCEPT !.banner = "parsed"], NewRateLimiterCounts)
                /\ session_state' = [session_state EXCEPT ![u].parsed_example_logs = TRUE]
    /\ UNCHANGED <<now, config_model_provider, env, fileVars,
                   last_call, window_calls, grant_times, reset_used, calls>>

\* app.py:520-521, 668-699  "Analyze Example Logs"
AnalyzeExampleLogs(u, world) ==
    /\ runs < MaxRuns
    /\ session_state[u].selected_input_method = "example"
    /\ LET r0 == StartRun(u, "AnalyzeExampleLogs")
       IN  IF r0.provider = "none"
           THEN FinishRun(u, [r0 EXCEPT !.banner = "provider not available"], NewRateLimiterCounts)
           ELSE IF ~session_state[u].parsed_example_logs
           THEN FinishRun(u, [r0 EXCEPT !.banner = "please parse"], NewRateLimiterCounts)
           ELSE LET t == RateCheckAndAnalyze(r0, ParsedTextDangerous(SampleTable), world, TRUE)
                IN  FinishRun(u, Handled(analyze_example_excepts, t), t.counts)
    /\ UNCHANGED <<now, config_model_provider, env, session_state, fileVars,
                   last_call, window_calls, grant_times, reset_used, calls>>

InputMethods == {"paste", "upload", "example"}

\* app.py:432-441  the input-method radio: store the choice, st.rerun()
SelectInputMethod(u, m) ==
    /\ runs < MaxRuns
    /\ m # session_state[u].selected_input_method
    /\ session_state' = [session_state EXCEPT ![u].selected_input_method = m]
    /\ FinishRun(u, StartRun(u, "SelectInputMethod"), NewRateLimiterCounts)
    /\ UNCHANGED <<now, config_model_provider, env, fileVars,
                   last_call, window_calls, grant_times, reset_used, calls>>

\* app.py:452-460  the Iris CMS filtering checkbox
ToggleIrisCmsFiltering(u) ==
    /\ runs < MaxRuns
    /\ session_state' = [session_state EXCEPT ![u].use_iris_cms_filtering = ~@]
    /\ FinishRun(u, StartRun(u, "ToggleIrisCmsFiltering"), NewRateLimiterCounts)
    /\ UNCHANGED <<now, config_model_provider, env, fileVars,
                   last_call, window_calls, grant_times, reset_used, calls>>

\* app.py:358  "except Exception as e" around _initialize_model_provider() and
\* st.rerun(); app.py:374 is the same clause around the fallback's pair.
select_provider_excepts ==
    << [classes |-> {"Exception"}, shows |-> "fallback"] >>

\* app.py:352-357, 368-373  _initialize_model_provider(), then st.rerun() if a
\* provider came out of it: what the pair raises. _initialize_model_provider
\* itself raises nothing (app.py:119-124).
InitializeAndRerun(provider) == IF provider # "none" THEN "RerunException" ELSE "none"

\* app.py:346-386  the provider radio shows a choice other than the session's
\* stored one. The result is config.model_provider and the session's stored
\* selection after the branch, the banner it shows, and whether the script is
\* run again.
SelectProviderBranch(choice, e) ==
    LET p1 == initialize_model_provider(choice, e)
        x1 == InitializeAndRerun(p1)
        c1 == Catch(select_provider_excepts, x1)
    IN  IF x1 = "none"
        THEN [config |-> choice, selected |-> choice, rerun |-> FALSE,
              banner |-> "initialization failed"]
        ELSE IF ~c1.caught
        THEN [config |-> choice, selected |-> choice, rerun |-> TRUE, banner |-> "none"]
        ELSE IF choice = "ollama"       \* 360-376: keep the selection, use gemini
        THEN LET p2 == initialize_model_provider("gemini", e)
                 x2 == InitializeAndRerun(p2)
                 c2 == Catch(select_provider_excepts, x2)
             IN  [config |-> "gemini", selected |-> "gemini",
                  rerun |-> x2 # "none" /\ ~c2.caught,
                  banner |-> IF x2 # "none" /\ ~c2.caught THEN "none"
                             ELSE "service unavailable"]
        ELSE \* 377-384: the stored selection is already gemini, so "previous" is ollama
             [config |-> "ollama", selected |-> "ollama", rerun |-> TRUE,
              banner |-> "failed to initialize gemini"]

Providers == {"gemini", "ollama"}

\* app.py:318-357  the user picks the other entry of the provider radio
SelectModelProvider(u, choice) ==
    /\ runs < MaxRuns
    /\ choice # session_state[u].selected_model_provider
    /\ LET b  == SelectProviderBranch(choice, env)
           r0 == [StartRun(u, "SelectModelProvider") EXCEPT !.choice = choice]
       IN  /\ config_model_provider' = b.config
           /\ session_state' = [session_state EXCEPT ![u].selected_model_provider = b.selected]
           \* with or without the rerun the run ends holding the provider that
           \* config.model_provider, as just written, initialises
           /\ FinishRun(u, [r0 EXCEPT !.provider = initialize_model_provider(b.config, env),
                                      !.banner = b.banner],
                        NewRateLimiterCounts)
    /\ UNCHANGED <<now, env, fileVars,
                   last_call, window_calls, grant_times, reset_used, calls>>

\* app.py:414-421  "Retry Model Initialization", offered when the run holds no
\* provider: _initialize_model_provider() again, then st.rerun()
RetryModelInitialization(u) ==
    /\ runs < MaxRuns
    /\ initialize_model_provider(config_model_provider, env) = "none"
    /\ FinishRun(u, StartRun(u, "RetryModelInitialization"), NewRateLimiterCounts)
    /\ UNCHANGED <<now, config_model_provider, env, session_state, fileVars,
                   last_call, window_calls, grant_times, reset_used, calls>>

\* app.py:140-148  run() after set_page_config and the theme: the health
\* check answers with st.json and returns; otherwise the page is rendered.
run_without_health_return(query_health) ==
    IF query_health = "check"
    THEN <<"st.json", "_render_header", "_render_sidebar", "_render_main_content">>
    ELSE <<"_render_header", "_render_sidebar", "_render_main_content">>

run_page(query_health) ==
    IF query_health = "check"
    THEN <<"st.json">>
    ELSE <<"_render_header", "_render_sidebar", "_render_main_content">>

\* The values of the query parameter "health" a request carries.
QueryHealth == {"check", "none"}

\* app.py:816-820, 126-148  a request for the page with no widget pressed:
\* IrisAgentApp() and run(). The session's keys already hold their defaults
\* (app.py:302-303, 428-429, 448-449), so rendering the sidebar stores nothing.
OpenPage(u, query_health) ==
    /\ runs < MaxRuns
    /\ FinishRun(u, [StartRun(u, "OpenPage") EXCEPT !.query_health = query_health,
                                                    !.events = run_page(query_health)],
                 NewRateLimiterCounts)
    /\ UNCHANGED <<now, config_model_provider, env, session_state, fileVars,
                   last_call, window_calls, grant_times, reset_used, calls>>

\* The wall clock moves between script runs: by less than a window, or past it.
AppSteps == {Window - 1, Window + 1}

AppTick(d) ==
    /\ now + d <= MaxTime
    /\ now' = now + d
    /\ UNCHANGED <<limiterVars, fileVars, appVars>>

Envs == [gemini_api_key : BOOLEAN, is_cloud_env : BOOLEAN, ollama_up : BOOLEAN]

\* The process has started (settings.py:83-84 built config) and each user's
\* page has been loaded once (app.py:302-303, 428-441).
Init ==
    /\ now = 0
    /\ InitLimiterVars
    /\ FileIdle
    /\ env \in Envs
    /\ \E p \in Providers :
          /\ config_model_provider = post_init_model_provider(p, env)
          /\ session_state = [u \in Users |->
                [selected_model_provider |-> config_model_provider,
                 selected_input_method |-> "paste",
                 use_iris_cms_filtering |-> FALSE, example_logs_loaded |-> FALSE,
                 example_logs_content |-> "none", parsed_example_logs |-> FALSE]]
    /\ run = NoRun
    /\ runs = 0
    /\ analyze_window = [u \in Users |-> [start |-> 0, calls |-> 0]]

Next ==
    \/ \E d \in AppSteps : AppTick(d)
    \/ \E u \in Users, t \in PastedTexts, w \in Worlds : AnalyzePastedLogs(u, t, w)
    \/ \E u \in Users, f \in Uploads \cup {NoUpload}, w \in Worlds : AnalyzeFile(u, f, w)
    \/ \E u \in Users, file \in ExampleContents \cup {"missing"} : LoadExampleLogs(u, file)
    \/ \E u \in Users : ParseExampleLogs(u)
    \/ \E u \in Users, w \in Worlds : AnalyzeExampleLogs(u, w)
    \/ \E u \in Users, m \in InputMethods : SelectInputMethod(u, m)
    \/ \E u \in Users : ToggleIrisCmsFiltering(u)
    \/ \E u \in Users, p \in Providers : SelectModelProvider(u, p)
    \/ \E u \in Users : RetryModelInitialization(u)
    \/ \E u \in Users, h \in QueryHealth : OpenPage(u, h)

Spec == Init /\ [][Next]_vars

\* =========================================================================
\* Properties
\* =========================================================================

\* C1: for a CSV log file within the size limit, parse_file_to_text returns
\* the parsed text content: a non-empty text that begins with the line
\* 'OCPP Log Data:' and carries the column list, the session analysis section
\* and the other-messages section built from the filtered rows.
C1_ParseReturnsText ==
    (/\ call.op = "parse_file_to_text"
     /\ input.log_file.file_type = "csv"
     /\ input.log_file.content_is_str
     /\ input.log_file.parses
     /\ input.log_file.content_bytes <= max_file_size_mb * 1024 * 1024)
    => /\ call.result.raised = "none"
       /\ ~call.result.is_none
       /\ Len(call.result.text) > 0
       /\ call.result.text[1] = <<"OCPP Log Data:">>
       /\ call.result.text = _convert_to_text_format(call.result.filtered_df_csv)

\* A row carries transaction id t in a recognised form: the id patterns read
\* t from its payLoadData and one of the ten literal forms of t occurs in it.
CarriesTransactionId(row, t) ==
    /\ t # NoneId
    /\ _extract_transaction_id_from_payload(row.payLoadData) = t
    /\ PayloadHasTransaction(row.payLoadData, t)

\* C2: an "Analyze File" action on a valid CSV upload, with a model provider
\* available and the rate limit not reached, goes through upload, parsing, the
\* rate-limit check and exactly one analyze_logs call on the parsed text, in
\* that order, and displays the result when the provider answers.
C2_AnalyzeFileReachesProvider ==
    (run.action = "AnalyzeFile" /\ run.valid_csv /\ run.provider # "none"
        /\ run.banner # "RateLimitError")
    => /\ run.analyze_calls = 1
       /\ run.analyzed_parsed_text
       /\ Len(run.events) >= 4
       /\ SubSeq(run.events, 1, 4) =
              <<"upload", "parse_file_to_text", "check_rate_limit", "analyze_logs">>
       /\ (run.banner = "result" => run.events = <<"upload", "parse_file_to_text",
                                        "check_rate_limit", "analyze_logs", "display">>)

\* C3: rows are grouped by transaction id. For every row of the table whose
\* payLoadData carries a transaction id in a recognised form,
\* _extract_transaction_ids contains that id and _extract_transaction_sessions
\* returns a session with that transaction_id whose messages include the row.
C3_RowsGroupedByTransactionId ==
    /\ call.op = "_extract_transaction_ids"
       => \A i \in 1..Len(input.df) : \A t \in 0..MaxTxId :
             CarriesTransactionId(input.df[i], t) => t \in call.result
    /\ call.op = "_extract_transaction_sessions"
       => \A i \in 1..Len(input.df) : \A t \in 0..MaxTxId :
             CarriesTransactionId(input.df[i], t)
             => \E k \in 1..Len(call.result) :
                   /\ call.result[k].transaction_id = t
                   /\ \E m \in 1..Len(call.result[k].messages) :
                         call.result[k].messages[m] = input.df[i]

\* C4: a transaction session holds only the rows that share its identifier.
\* Every message returned by _get_messages_for_transaction(df, T) is a row
\* whose payLoadData transaction id, as _extract_transaction_id_from_payload
\* gives it, equals T.
C4_SessionHoldsOnlyItsRows ==
    call.op = "_get_messages_for_transaction"
    => \A m \in 1..Len(call.result) :
          _extract_transaction_id_from_payload(call.result[m].payLoadData) = call.tx_id

\* C5: the transaction-id regex extracts the expected integer. For a payload
\* holding one of the keys "transactionId", "transactionid", "TransactionId",
\* a colon, optional whitespace and a number N (bare or double-quoted, integer
\* or N.0), _extract_transaction_id_from_payload returns N; for a payload with
\* no such key and number it returns None.
C5_RegexExtractsExpectedInteger ==
    call.op = "_extract_transaction_id_from_payload"
    => call.result = input.expected

W_heart_lc == <<"h", "e", "a", "r", "t">>
W_heartbeat_lc == <<"h", "e", "a", "r", "t", "b", "e", "a", "t">>
W_bootnotification_lc == <<"b", "o", "o", "t", "n", "o", "t", "i", "f", "i", "c", "a", "t", "i", "o", "n">>
\* Some column of the row, read without regard to case, contains the
\* (lower-case) word.
RowMentions(row, word) ==
    \E c \in {"real_time", "command", "payLoadData"} :
        \E i \in 1..Len(row[c]) :
            /\ i + Len(word) - 1 <= Len(row[c])
            /\ \A k \in 1..Len(word) : LowerChar(row[c][i + k - 1]) = word[k]

\* C6: row filtering excludes heartbeat and boot-notification rows. With Iris
\* CMS filtering off the filtered table is exactly the input rows in which no
\* column contains 'heart' or 'bootnotification' (case-insensitive), unchanged
\* and in their original order; with it on, no kept row contains 'HeartBeat'
\* or 'BootNotification' (case-insensitive).
C6_RowFiltering ==
    /\ call.op = "_filter_heartbeat_and_boot_notification_messages"
       => /\ \A k \in 1..Len(call.result) :
                /\ call.result[k].idx + 1 \in 1..Len(input.df)
                /\ call.result[k] = input.df[call.result[k].idx + 1]
          /\ \A k \in 1..(Len(call.result) - 1) :
                call.result[k].idx < call.result[k + 1].idx
          /\ { call.result[k].idx + 1 : k \in 1..Len(call.result) }
             = { i \in 1..Len(input.df) :
                    /\ ~RowMentions(input.df[i], W_heart_lc)
                    /\ ~RowMentions(input.df[i], W_bootnotification_lc) }
    /\ call.op = "_filter_iris_cms_logs"
       => \A k \in 1..Len(call.result) :
             /\ ~RowMentions(call.result[k], W_heartbeat_lc)
             /\ ~RowMentions(call.result[k], W_bootnotification_lc)
    /\ (call.op = "parse_file_to_text" /\ call.result.raised = "none")
       => \A k \in 1..Len(call.result.filtered_df_csv) :
             /\ ~RowMentions(call.result.filtered_df_csv[k], W_bootnotification_lc)
             /\ ~RowMentions(call.result.filtered_df_csv[k],
                             IF call.flag THEN W_heartbeat_lc ELSE W_heart_lc)

\* C6 witness: of a two-row table the filter dropped the first row, which
\* names a boot notification, and kept the second.
C6_Witness ==
    /\ call.op = "_filter_heartbeat_and_boot_notification_messages"
    /\ Len(input.df) = 2
    /\ RowMentions(input.df[1], W_bootnotification_lc)
    /\ Len(call.result) = 1
    /\ call.result[1] = input.df[2]

\* C7: fixed-window limit. For every session, among the check_rate_limit calls
\* made no more than 60 seconds after the session's window start, the first
\* max_requests_per_minute return True and every later one raises
\* RateLimitError; the stored count always lies in 0..max_requests_per_minute.
C7_FixedWindowLimit ==
    /\ \A s \in SessionIds : \A k \in 1..Len(window_calls[s]) :
          window_calls[s][k] =
              IF k <= max_requests_per_minute THEN "True" ELSE "RateLimitError"
    /\ \A s \in DOMAIN request_counts :
          request_counts[s].count \in 0..max_requests_per_minute

\* C7 witness: a call made exactly Window seconds after the window start, with
\* the limit used up, has just been rejected.
C7_Witness ==
    /\ last_call.op = "check_rate_limit"
    /\ last_call.existed
    /\ last_call.time - last_call.prev_last_reset = Window
    /\ last_call.result = "RateLimitError"
    /\ Len(window_calls[last_call.session]) = max_requests_per_minute + 1

C9_AtMostMaxPerMinute ==
    \A s \in SessionIds \ reset_used :
        LET g == grant_times[s]
        IN  Len(g) > max_requests_per_minute
            => g[Len(g)] - g[Len(g) - max_requests_per_minute] >= Window

\* C10: among the Analyze actions of a user that fall within one 60-second
\* window, at most max_requests_per_minute call analyze_logs.
C10_AnalysesPerWindowLimited ==
    \A u \in Users : analyze_window[u].calls <= max_requests_per_minute

\* C11: every error raised while handling an Analyze action (pasted text,
\* uploaded file, example logs) or a Parse Example action is caught inside the
\* handler and shown as a banner: nothing leaves the handler, and the run ends
\* with the error's banner on the page.
AnalyzeOrParseActions ==
    {"AnalyzePastedLogs", "AnalyzeFile", "AnalyzeExampleLogs", "ParseExampleLogs"}
C11_ErrorsCaughtAndShown ==
    run.action \in AnalyzeOrParseActions
    => /\ run.escaped = "none"
       /\ run.banner # "startup failed"
       /\ (run.raised # "none" => run.banner \notin {"none", "result"})

\* C11 witness: the report builder failed after the provider answered, an
\* exception of no application class, and the handler's last clause showed
\* its banner.
C11_Witness ==
    /\ run.action = "AnalyzePastedLogs"
    /\ run.raised = "Exception"
    /\ run.escaped = "none"
    /\ run.banner = "unexpected error"

\* C12: nothing is retried. One Analyze action makes at most one
\* check_rate_limit call, at most one analyze_logs call and at most one request
\* to the model endpoint, whether the request succeeds, fails or times out.
C12_NothingRetried ==
    run.action \in {"AnalyzePastedLogs", "AnalyzeFile", "AnalyzeExampleLogs"}
    => /\ run.rate_checks <= 1
       /\ run.analyze_calls <= 1
       /\ run.endpoint_requests <= 1

\* C12 witness: the request of an Analyze action timed out; the action ended
\* with the service banner after that single request.
C12_Witness ==
    /\ run.action = "AnalyzePastedLogs"
    /\ run.analyze_inner = "DeadlineExceeded"
    /\ run.rate_checks = 1
    /\ run.endpoint_requests = 1
    /\ run.banner = "service unavailable"

\* C13: every failure inside parse_file_to_text (content over the size limit,
\* unsupported file type, content that cannot be parsed, content of the wrong
\* kind) reaches the caller as FileProcessingError; the call raises nothing
\* else.
C13_ParseRaisesOnlyFileProcessingError ==
    call.op = "parse_file_to_text"
    => /\ call.result.raised \in {"none", "FileProcessingError"}
       /\ (call.result.inner # "none" => call.result.raised = "FileProcessingError")

\* C13 witness: a CSV over the size limit; validate_file_size raised
\* FileSizeError and the call raised FileProcessingError.
C13_Witness ==
    /\ call.op = "parse_file_to_text"
    /\ input.log_file.file_type = "csv"
    /\ call.result.inner = "FileSizeError"
    /\ call.result.raised = "FileProcessingError"

C15_SecurityErrorShown ==
    (run.analyze_calls > 0 /\ run.dangerous)
    => /\ run.endpoint_requests = 0
       /\ run.banner = "SecurityError"

\* C16: both upload types are processed. An uploaded XLSX file within the size
\* limit, handled with a provider available, is turned into a LogFile and
\* parsed by parse_file_to_text without an error.
C16_XlsxUploadParsed ==
    (run.action = "AnalyzeFile" /\ run.upload_ext = "xlsx" /\ run.provider # "none"
        /\ run.upload_bytes <= max_file_size_mb * 1024 * 1024)
    => /\ "parse_file_to_text" \in {run.events[i] : i \in 1..Len(run.events)}
       /\ run.parse_raised = "none"
       /\ run.raised = "none"

\* C17: local fallback. Outside a cloud environment, with the Ollama server
\* not reachable and a Gemini API key configured, selecting the local provider
\* in the sidebar falls back to the cloud LLM: once the selection is handled
\* the active model provider is Gemini, not absent.
C17_LocalFallbackToGemini ==
    (run.action = "SelectModelProvider" /\ run.choice = "ollama"
        /\ ~env.is_cloud_env /\ ~env.ollama_up /\ env.gemini_api_key)
    => run.provider = "gemini"

\* C18: in a cloud environment (as the application detects it) the active
\* model provider is never Ollama, whatever providers were selected and
\* initialised; with a Gemini API key configured, selecting the local provider
\* yields Gemini as the active provider.
C18_CloudNeverOllama ==
    env.is_cloud_env
    => /\ run.provider # "ollama"
       /\ ((run.action = "SelectModelProvider" /\ run.choice = "ollama"
               /\ env.gemini_api_key) => run.provider = "gemini")

\* C18 witness: in a cloud environment with a key and a reachable Ollama
\* server the user selected the local provider; config.model_provider names
\* ollama and the run holds Gemini.
C18_Witness ==
    /\ env.is_cloud_env /\ env.gemini_api_key /\ env.ollama_up
    /\ run.action = "SelectModelProvider"
    /\ run.choice = "ollama"
    /\ config_model_provider = "ollama"
    /\ run.provider = "gemini"

\* C19: configuration is a single settings object read once at startup. Once
\* it has been built, no user action (provider selection, input-method change,
\* analyze, parse) changes any of its fields: config.model_provider, the one
\* field the application ever assigns, keeps its value in every step.
C19_SettingsNeverChange ==
    [][config_model_provider' = config_model_provider]_vars

\* The provider the next script run, of any session, initialises and uses:
\* app.py:48 and 75-118 read the process-wide config.model_provider.
NextRunProvider == initialize_model_provider(config_model_provider, env)

\* C20: no mutable state is shared between user sessions other than request
\* counters. A provider selection made in one session never changes which
\* model provider another session's next script run initialises and uses.
C20_SelectionStaysInSession ==
    [][\A v \in Users :
          (runs' = runs + 1 /\ run'.action = "SelectModelProvider" /\ run'.user # v)
          => NextRunProvider' = NextRunProvider]_vars

\* C21: a request that carries health=check emits the JSON status payload and
\* nothing else of the page (no header, sidebar or main content), makes no
\* rate-limit check and no analyze_logs call, and leaves the session state of
\* every user and the settings object as they were.
C21_HealthCheckReadOnly ==
    [][(runs' = runs + 1 /\ run'.action = "OpenPage" /\ run'.query_health = "check")
       => /\ run'.events = <<"st.json">>
          /\ run'.rate_checks = 0
          /\ run'.analyze_calls = 0
          /\ run'.endpoint_requests = 0
          /\ session_state' = session_state
          /\ config_model_provider' = config_model_provider]_vars

\* A health check has been answered in a session whose state is not the
\* default one any more.
C21_Witness ==
    /\ run.action = "OpenPage"
    /\ run.query_health = "check"
    /\ run.events = <<"st.json">>
    /\ session_state[run.user].selected_input_method # "paste"

\* C22: when the response holds the summary table in the format the prompt
\* requires, the SessionSummary that analyze_logs returns holds exactly the
\* five values of the table.
C22_SummaryHoldsTableValues ==
    (call.op = "process_response" /\ input.conforming)
        => call.result.summary = input.expected

\* C23: whatever the response says, the four counts of the SessionSummary
\* are not negative.
C23_CountsNonNegative ==
    call.op = "process_response"
        => /\ call.result.summary.total_sessions >= 0
           /\ call.result.summary.successful_sessions >= 0
           /\ call.result.summary.failed_sessions >= 0
           /\ call.result.summary.pre_charging_failures >= 0

\* C25: the log content put into the prompt is never longer than
\* max_content_size_kb * 1024 characters, and a content within that limit is
\* put there unchanged.
C25_ContentWithinMaximum ==
    call.op = "limit_content"
        => /\ Len(call.result) <= input.max_content_size_kb * 1024
           /\ (Len(input.log_content) <= input.max_content_size_kb * 1024
                  => call.result = input.log_content)

\* C24: the row filter is given the first max_dataframe_rows rows of the
\* parsed table, in file order, when the table has more rows than that, and
\* the whole table otherwise; the filtered table has at most
\* max_dataframe_rows rows.
C24_RowsTruncatedBeforeFiltering ==
    (call.op = "parse_file_to_text" /\ call.result.raised = "none")
        => LET table == input.log_file.table
           IN  /\ Len(table) > max_dataframe_rows
                     => call.result.df = SubSeq(table, 1, max_dataframe_rows)
               /\ Len(table) <= max_dataframe_rows => call.result.df = table
               /\ Len(call.result.filtered_df_csv) <= max_dataframe_rows

\* A table with more rows than the limit has been parsed, and the rows kept
\* passed the filter.
C24_Witness ==
    /\ call.op = "parse_file_to_text"
    /\ call.result.raised = "none"
    /\ Len(input.log_file.table) > max_dataframe_rows
    /\ Len(call.result.df) = max_dataframe_rows
    /\ Len(call.result.filtered_df_csv) = max_dataframe_rows

\* The lines _convert_to_text_format writes for a row as message m of a
\* section, and whether the text holds them.
RowBlock(row, title, indent, m) ==
    << <<title, m, ":">> >>
    \o [c \in 1..Len(columns) |-> <<indent, columns[c], ": ", row[columns[c]]>>]
AppearsAs(text, row, title, indent) ==
    \E m \in 1..Len(text), i \in 1..Len(text) :
        /\ i + Len(columns) <= Len(text)
        /\ SubSeq(text, i, i + Len(columns)) = RowBlock(row, title, indent, m)
InSomeSession(text, row) == AppearsAs(text, row, "  Message ", "    ")
InOtherMessages(text, row) == AppearsAs(text, row, "Message ", "  ")

InRealTimeOrder(msgs) ==
    \A a, b \in 1..Len(msgs) :
        a < b => /\ StrLeq(msgs[a].real_time, msgs[b].real_time)
                 /\ (msgs[a].real_time = msgs[b].real_time => msgs[a].idx < msgs[b].idx)

====
